---- MODULE Spec2Model ----
(***************************************************************************)
(* Peer provisioning engine of wireguard-server-panel: the peers table of  *)
(* internal/db/database.go, the live WireGuard interface driven through    *)
(* pkg/wgmanager/wgmanager.go, and the handlers of                         *)
(* internal/handlers/peers.go that keep the two in step.                   *)
(*                                                                         *)
(* Representation.  An IPv4 address string "a.b.c.d" is the sequence of    *)
(* the numbers its dot-separated parts denote, <<a, b, c, d>>; a string    *)
(* with fewer parts or with a part above 255 is the corresponding sequence.*)
(* A key is a record whose len field is the length of the base64-decoded   *)
(* value.  An optional request field (a Go pointer) is the empty set when  *)
(* absent and a singleton when present.  An error is a string, "" for nil. *)
(* Every external call (wg, wg-quick, a SQL statement) succeeds or fails   *)
(* as the environment decides.  CreatePeer, UpdatePeer and DeletePeer      *)
(* return at their first failing call, so such a handler takes as input    *)
(* the one call that fails, `fault` ("none" when every call succeeds);     *)
(* the rollback CreatePeer runs after a failed AddPeer has its own input.  *)
(***************************************************************************)
EXTENDS Integers, Sequences, FiniteSets, TLC

VARIABLES
    peers,      \* rows of table peers
    nextID,     \* next AUTOINCREMENT id of table peers
    nextKey,    \* number of the next key pair GenerateKeyPair draws
    logs,       \* rows of table connection_logs
    nextLogID,  \* next AUTOINCREMENT id of table connection_logs
    settings,   \* rows of table settings, key -> value
    live,       \* peer table of the running interface: public key -> allowed ips
    saved,      \* peer table last written to wg0.conf by wg-quick save
    now,        \* wall clock, seconds
    req,        \* the request handled last
    resp,       \* its response
    calls,      \* the external tool invocations and SQL writes it made, in order
    alloc,      \* one call of GetNextAvailableIP on its own: arguments and result
    procs,      \* concurrent CreatePeer requests: where each goroutine is in the handler
    users,          \* rows of table users
    refresh_tokens, \* rows of table refresh_tokens
    accessSecret,   \* cfg.JWT.AccessSecret of the running process
    nextToken,      \* number of the next random value GenerateRefreshToken draws
    rotated,        \* history: the refresh tokens a successful refresh was answered for
    visitors,       \* RateLimiter.visitors: source address -> its limiter and lastSeen
    attempts,       \* history: per source address, the login attempts and their answers
    config,         \* cfg.WireGuard of the running process: DNS and AllowedIPs
    ctxDone,        \* main: cancel() of the maintenance context has been called
    tickerC,        \* main: a tick waits in the channel of the hourly ticker
    dbOpen,         \* main: database.Close has not run
    mainPC,         \* where main is
    maintPC,        \* where the maintenance goroutine is
    client          \* the web client in one browser: its token, cookie jar and requests

limitVars == <<visitors, attempts>>
mainVars == <<ctxDone, tickerC, dbOpen, mainPC, maintPC>>
authVars == <<users, refresh_tokens, accessSecret, nextToken, rotated, limitVars, config,
             mainVars, client>>

vars == <<peers, nextID, nextKey, logs, nextLogID, settings, live, saved, now, req, resp, calls,
          alloc, procs, authVars>>

---------------------------------------------------------------------------
(* Bounds of the model *)

MaxKeys == 2        \* key pairs generated in one run (create requests that reach key generation)
MaxLogs == 1        \* rows of connection_logs in one run
AllocWindow == 3    \* GetNextAvailableIP is tried with this many hosts around each end of the range
MaxProcs == 2       \* goroutines serving CreatePeer requests at the same time
MaxTokens == 3      \* refresh tokens generated
MaxSecrets == 2     \* signing secrets the service is started with
MaxTicks == 3       \* clock steps
MaxAttempts == 3    \* login attempts of one source address
MaxLogRows == 3     \* rows of connection_logs when ListPeers runs in several goroutines

(* Program constants *)

FirstHost == 2          \* database.go:342  for i := 2
HostLimit == 255        \* database.go:342  i < 255
MaxOctet == 255         \* wgmanager.go:107 num > 255
MaxPart == 999          \* wgmanager.go:22  \d{1,3}
WGKeyLen == 32          \* wgmanager.go:94  len(decoded) == 32
OnlineWindow == 180     \* wgmanager.go:253 180*time.Second

Epoch == 2 * OnlineWindow                   \* clock reading when the service starts
WGSubnet == [addr |-> <<10, 8, 0, 0>>, prefix |-> 24]   \* config wireguard.subnet, "10.8.0.0/24"

Names == {"alice", "bob"}
Sources == {"192.0.2.1", "192.0.2.2"}       \* c.ClientIP() of the clients
Some(p) == CHOOSE v \in p : TRUE            \* *p of a non-nil pointer
Opt(S) == {{}} \cup {{v} : v \in S}         \* nil or a pointer to a value of S

Min(S) == CHOOSE x \in S : \A y \in S : x <= y
Range(s) == {s[i] : i \in DOMAIN s}

---------------------------------------------------------------------------
(* pkg/wgmanager: validation and key generation *)

GenerateKeyPair(k) ==
    [privateKey |-> [kind |-> "private", n |-> k, len |-> WGKeyLen],
     publicKey  |-> [kind |-> "public",  n |-> k, len |-> WGKeyLen]]

\* a check that accepts a key of any length
ValidatePublicKey_AnyLength(key) == TRUE

\* base64.StdEncoding decodes the key to exactly 32 bytes; len is the decoded length
ValidatePublicKey(key) == key.len = WGKeyLen

\* a check of the pattern alone, without the range of each octet
ValidateIP_PatternOnly(ip) ==
    /\ Len(ip) = 4
    /\ \A i \in 1..4 : ip[i] \in 0..MaxPart

ValidateIP(ip) ==
    /\ Len(ip) = 4
    /\ \A i \in 1..4 : ip[i] \in 0..MaxPart
    /\ \A i \in 1..4 : ip[i] >= 0 /\ ip[i] <= MaxOctet

---------------------------------------------------------------------------
(* The wg and wg-quick tools acting on the interface *)

Call(cmd, ok) == [cmd |-> cmd, ok |-> ok]
IsTool(c) == c.cmd \in {"wg set peer", "wg set remove", "wg-quick save", "wg show dump"}
ToolCalls(cs) == SelectSeq(cs, IsTool)

\* wg set <if> peer <key> allowed-ips <ip>/32: the peer is created if absent, its
\* allowed ips are replaced, and the address leaves every other peer
WgSetPeer(lv, publicKey, assignedIP) ==
    [k \in DOMAIN lv \cup {publicKey} |->
        IF k = publicKey THEN {assignedIP} ELSE lv[k] \ {assignedIP}]

\* wg set <if> peer <key> remove: removing an absent peer changes nothing
WgRemovePeer(lv, publicKey) ==
    [k \in DOMAIN lv \ {publicKey} |-> lv[k]]

\* fault "set": the wg set command fails; fault "save": the wg-quick save after it fails
SaveConfig(lv, sv, saveOK) ==
    IF saveOK
    THEN [err |-> "", saved |-> lv, calls |-> <<Call("wg-quick save", TRUE)>>]
    ELSE [err |-> "failed to save configuration", saved |-> sv,
          calls |-> <<Call("wg-quick save", FALSE)>>]

\* AddPeer returning nil although wg set failed
AddPeer_SetErrorDropped(lv, sv, publicKey, assignedIP, fault) ==
    IF fault = "set"
    THEN [err |-> "", live |-> lv, saved |-> sv, calls |-> <<Call("wg set peer", FALSE)>>]
    ELSE LET lv2 == WgSetPeer(lv, publicKey, assignedIP)
             s == SaveConfig(lv2, sv, fault # "save")
         IN  [err |-> IF s.err = "" THEN "" ELSE "failed to save config after adding peer",
              live |-> lv2, saved |-> s.saved,
              calls |-> <<Call("wg set peer", TRUE)>> \o s.calls]

\* AddPeer returning nil although wg-quick save failed
AddPeer_SaveErrorDropped(lv, sv, publicKey, assignedIP, fault) ==
    IF fault = "set"
    THEN [err |-> "failed to add peer", live |-> lv, saved |-> sv,
          calls |-> <<Call("wg set peer", FALSE)>>]
    ELSE LET lv2 == WgSetPeer(lv, publicKey, assignedIP)
             s == SaveConfig(lv2, sv, fault # "save")
         IN  [err |-> "", live |-> lv2, saved |-> s.saved,
              calls |-> <<Call("wg set peer", TRUE)>> \o s.calls]

AddPeer(lv, sv, publicKey, assignedIP, fault) ==
    IF ~ValidatePublicKey(publicKey)
    THEN [err |-> "invalid public key format", live |-> lv, saved |-> sv, calls |-> <<>>]
    ELSE IF ~ValidateIP(assignedIP)
    THEN [err |-> "invalid IP address format", live |-> lv, saved |-> sv, calls |-> <<>>]
    ELSE IF fault = "set"
    THEN [err |-> "failed to add peer", live |-> lv, saved |-> sv,
          calls |-> <<Call("wg set peer", FALSE)>>]
    ELSE LET lv2 == WgSetPeer(lv, publicKey, assignedIP)
             s == SaveConfig(lv2, sv, fault # "save")
         IN  [err |-> IF s.err = "" THEN "" ELSE "failed to save config after adding peer",
              live |-> lv2, saved |-> s.saved,
              calls |-> <<Call("wg set peer", TRUE)>> \o s.calls]

\* RemovePeer returning nil although wg-quick save failed
RemovePeer_SaveErrorDropped(lv, sv, publicKey, fault) ==
    IF fault = "set"
    THEN [err |-> "failed to remove peer", live |-> lv, saved |-> sv,
          calls |-> <<Call("wg set remove", FALSE)>>]
    ELSE LET lv2 == WgRemovePeer(lv, publicKey)
             s == SaveConfig(lv2, sv, fault # "save")
         IN  [err |-> "", live |-> lv2, saved |-> s.saved,
              calls |-> <<Call("wg set remove", TRUE)>> \o s.calls]

RemovePeer(lv, sv, publicKey, fault) ==
    IF ~ValidatePublicKey(publicKey)
    THEN [err |-> "invalid public key format", live |-> lv, saved |-> sv, calls |-> <<>>]
    ELSE IF fault = "set"
    THEN [err |-> "failed to remove peer", live |-> lv, saved |-> sv,
          calls |-> <<Call("wg set remove", FALSE)>>]
    ELSE LET lv2 == WgRemovePeer(lv, publicKey)
             s == SaveConfig(lv2, sv, fault # "save")
         IN  [err |-> IF s.err = "" THEN "" ELSE "failed to save config after removing peer",
              live |-> lv2, saved |-> s.saved,
              calls |-> <<Call("wg set remove", TRUE)>> \o s.calls]

---------------------------------------------------------------------------
(* internal/db: table peers *)

AssignedIPs(ps) == {p.assigned_ip : p \in ps}
PublicKeys(ps) == {p.public_key : p \in ps}
RowByIP(ps, ip) == CHOOSE p \in ps : p.assigned_ip = ip

\* "10.8.0.0/24" -> "10.8.0.0": the text before the last '/'
SubnetBase(subnet) == subnet.addr

\* fmt.Sprintf("%d.%d.%d.%d", o1, o2, o3, i)
HostIP(subnet, i) ==
    LET b == SubnetBase(subnet) IN <<b[1], b[2], b[3], i>>

\* the scan with i <= 255 as its loop condition
ScanHosts_ThroughBroadcast(subnet, usedIPs, first) ==
    LET free == {i \in first..HostLimit : HostIP(subnet, i) \notin usedIPs}
    IN  IF free = {}
        THEN [err |-> "no available IP addresses in subnet", ip |-> <<>>]
        ELSE [err |-> "", ip |-> HostIP(subnet, Min(free))]

\* for i := 2; i < 255; i++ { if !usedIPs[ip] { return ip, nil } }: the loop counts
\* upwards and returns at the first host whose address is not in usedIPs
ScanHosts(subnet, usedIPs, first) ==
    LET free == {i \in first..(HostLimit - 1) : HostIP(subnet, i) \notin usedIPs}
    IN  IF free = {}
        THEN [err |-> "no available IP addresses in subnet", ip |-> <<>>]
        ELSE [err |-> "", ip |-> HostIP(subnet, Min(free))]

\* the scan starting at host 1
GetNextAvailableIP_FromHostOne(subnet, usedIPs) == ScanHosts(subnet, usedIPs, FirstHost - 1)

\* usedIPs is what SELECT assigned_ip FROM peers returned
GetNextAvailableIP(subnet, usedIPs) == ScanHosts(subnet, usedIPs, FirstHost)

\* a SELECT that returns a row whatever the address
GetPeerByIP_AnyRow(ps, ip, readOK) ==
    IF readOK /\ ps # {}
    THEN [err |-> "",
          peer |-> IF ip \in AssignedIPs(ps) THEN RowByIP(ps, ip) ELSE CHOOSE p \in ps : TRUE]
    ELSE [err |-> "no rows", peer |-> <<>>]

GetPeerByIP(ps, ip, readOK) ==
    IF readOK /\ ip \in AssignedIPs(ps)
    THEN [err |-> "", peer |-> RowByIP(ps, ip)]
    ELSE [err |-> "no rows", peer |-> <<>>]

\* an INSERT into a table whose assigned_ip column is not UNIQUE
DBCreatePeer_NoUniqueIP(ps, id, peer, t, fault) ==
    IF fault = "insert" \/ peer.public_key \in PublicKeys(ps)
    THEN [err |-> "insert failed", peers |-> ps, nextID |-> id, peer |-> <<>>]
    ELSE LET row == [id |-> id, name |-> peer.name, public_key |-> peer.public_key,
                     private_key |-> peer.private_key, assigned_ip |-> peer.assigned_ip,
                     enabled |-> peer.enabled, created_at |-> t, updated_at |-> t]
         IN  [err |-> IF fault = "select" THEN "select failed" ELSE "",
              peers |-> ps \cup {row}, nextID |-> id + 1,
              peer |-> IF fault = "select" THEN <<>> ELSE row]

\* INSERT INTO peers, then GetPeerByID of the new row; fault "insert" or "select"
\* is the statement that fails
DBCreatePeer(ps, id, peer, t, fault) ==
    IF \/ fault = "insert"
       \/ peer.public_key \in PublicKeys(ps)       \* public_key TEXT UNIQUE
       \/ peer.assigned_ip \in AssignedIPs(ps)     \* assigned_ip TEXT UNIQUE
    THEN [err |-> "insert failed", peers |-> ps, nextID |-> id, peer |-> <<>>]
    ELSE LET row == [id |-> id, name |-> peer.name, public_key |-> peer.public_key,
                     private_key |-> peer.private_key, assigned_ip |-> peer.assigned_ip,
                     enabled |-> peer.enabled, created_at |-> t, updated_at |-> t]
         IN  IF fault # "select"
             THEN [err |-> "", peers |-> ps \cup {row}, nextID |-> id + 1, peer |-> row]
             ELSE [err |-> "select failed", peers |-> ps \cup {row}, nextID |-> id + 1,
                   peer |-> <<>>]

\* UPDATE peers SET name = ? without its WHERE clause
SetName_EveryRow(ps, ip, name, t) ==
    {[p EXCEPT !.name = name, !.updated_at = t] : p \in ps}

SetName(ps, ip, name, t) ==
    {IF p.assigned_ip = ip THEN [p EXCEPT !.name = name, !.updated_at = t] ELSE p : p \in ps}

SetEnabled(ps, ip, enabled, t) ==
    {IF p.assigned_ip = ip THEN [p EXCEPT !.enabled = enabled, !.updated_at = t] ELSE p : p \in ps}

\* the two UPDATE statements, each skipped when its field is absent, then GetPeerByIP;
\* fault "name", "enabled" or "select" is the statement that fails
DBUpdatePeer(ps, ip, name, enabled, t, fault) ==
    IF name # {} /\ fault = "name"
    THEN [err |-> "update failed", peers |-> ps, peer |-> <<>>, calls |-> <<Call("db update name", FALSE)>>]
    ELSE LET ps1 == IF name # {} THEN SetName(ps, ip, Some(name), t) ELSE ps
             c1 == IF name # {} THEN <<Call("db update name", TRUE)>> ELSE <<>>
         IN  IF enabled # {} /\ fault = "enabled"
             THEN [err |-> "update failed", peers |-> ps1, peer |-> <<>>,
                   calls |-> c1 \o <<Call("db update enabled", FALSE)>>]
             ELSE LET ps2 == IF enabled # {} THEN SetEnabled(ps1, ip, Some(enabled), t) ELSE ps1
                      c2 == IF enabled # {} THEN <<Call("db update enabled", TRUE)>> ELSE <<>>
                      got == GetPeerByIP(ps2, ip, fault # "select")
                  IN  [err |-> got.err, peers |-> ps2, peer |-> got.peer, calls |-> c1 \o c2]

\* a delete that leaves the connection_logs rows of the peer behind
DBDeletePeer_NoCascade(ps, lg, ip, deleteOK) ==
    IF ~deleteOK
    THEN [err |-> "delete failed", peers |-> ps, logs |-> lg, calls |-> <<Call("db delete", FALSE)>>]
    ELSE IF ip \notin AssignedIPs(ps)
    THEN [err |-> "no rows", peers |-> ps, logs |-> lg, calls |-> <<Call("db delete", TRUE)>>]
    ELSE [err |-> "", peers |-> ps \ {CHOOSE row \in ps : row.assigned_ip = ip}, logs |-> lg,
          calls |-> <<Call("db delete", TRUE)>>]

\* DELETE FROM peers WHERE assigned_ip = ?; connection_logs rows follow their peer
\* (FOREIGN KEY ... ON DELETE CASCADE with _foreign_keys=on)
DBDeletePeer(ps, lg, ip, deleteOK) ==
    IF ~deleteOK
    THEN [err |-> "delete failed", peers |-> ps, logs |-> lg, calls |-> <<Call("db delete", FALSE)>>]
    ELSE IF ip \notin AssignedIPs(ps)
    THEN [err |-> "no rows", peers |-> ps, logs |-> lg, calls |-> <<Call("db delete", TRUE)>>]
    ELSE LET row == RowByIP(ps, ip)
         IN  [err |-> "", peers |-> ps \ {row},
              logs |-> {l \in lg : l.peer_id # row.id},
              calls |-> <<Call("db delete", TRUE)>>]

\* rows ORDER BY created_at DESC: every order of the rows that respects it
GetAllPeers(ps) ==
    {s \in [1..Cardinality(ps) -> ps] :
        /\ \A i, j \in DOMAIN s : i # j => s[i] # s[j]
        /\ \A i, j \in DOMAIN s : i < j => s[i].created_at >= s[j].created_at}

---------------------------------------------------------------------------
(* internal/db: tables settings and connection_logs *)

GetSetting(st, key, readOK) ==
    IF readOK /\ key \in DOMAIN st THEN st[key] ELSE ""

SetSetting(st, key, value) ==
    [k \in DOMAIN st \cup {key} |-> IF k = key THEN value ELSE st[k]]

\* SELECT endpoint ... WHERE peer_id = ? ORDER BY connected_at DESC LIMIT 1: the
\* endpoint of a row of the peer with the greatest connected_at (any of them when
\* several rows share it), as a pointer; nil when the peer has no row
LastEndpoints(lg, peerID) ==
    LET mine == {l \in lg : l.peer_id = peerID}
        newest == {l \in mine : \A m \in mine : m.connected_at <= l.connected_at}
    IN  IF mine = {} THEN {{}} ELSE {{l.endpoint} : l \in newest}

\* last is what the SELECT returned (nil also when the query failed)
AddConnectionLog(lg, id, peerID, endpoint, t, last, insertOK) ==
    IF last # {} /\ Some(last) = endpoint
    THEN [logs |-> lg, nextLogID |-> id]
    ELSE IF ~insertOK
    THEN [logs |-> lg, nextLogID |-> id]
    ELSE [logs |-> lg \cup {[id |-> id, peer_id |-> peerID, endpoint |-> endpoint,
                             connected_at |-> t]},
          nextLogID |-> id + 1]

\* every way one AddConnectionLog call can end
AddConnectionLogOutcomes(lg, id, peerID, endpoint, t) ==
    {AddConnectionLog(lg, id, peerID, endpoint, t, last, insertOK) :
        last \in LastEndpoints(lg, peerID) \cup {{}}, insertOK \in BOOLEAN}

---------------------------------------------------------------------------
(* pkg/wgmanager: GetPeerStats *)

NoEndpoint == "(none)"
Endpoints == {"198.51.100.7:40000", "203.0.113.9:40000"}

\* the peer lines `wg show <if> dump` can print at time t: endpoint, latest
\* handshake (unix seconds, 0 for none), bytes received, bytes sent
DumpLines(t) ==
    {[endpoint |-> NoEndpoint, latest_handshake |-> 0, transfer_rx |-> 0, transfer_tx |-> 0]}
    \cup {[endpoint |-> e, latest_handshake |-> t - (OnlineWindow - 1),
           transfer_rx |-> 1024, transfer_tx |-> 2048] : e \in Endpoints}
    \cup {[endpoint |-> CHOOSE e \in Endpoints : TRUE, latest_handshake |-> t - OnlineWindow,
           transfer_rx |-> 1024, transfer_tx |-> 2048]}

IsOnline(latestHandshake, t) ==
    latestHandshake # 0 /\ t - latestHandshake < OnlineWindow

\* GetPeerStats returning the map it parsed together with the error
GetPeerStats_StatsOnError(dump, dumpOK, t) ==
    [err |-> IF dumpOK THEN "" ELSE "failed to get peer stats", isNil |-> FALSE,
     stats |-> [k \in DOMAIN dump |->
                   [PublicKey |-> k,
                    Endpoint |-> dump[k].endpoint,
                    LatestHandshake |-> dump[k].latest_handshake,
                    TransferRx |-> dump[k].transfer_rx,
                    TransferTx |-> dump[k].transfer_tx,
                    IsOnline |-> IsOnline(dump[k].latest_handshake, t)]],
     calls |-> <<Call("wg show dump", dumpOK)>>]

\* dump maps every peer of the interface to its line
GetPeerStats(dump, dumpOK, t) ==
    IF ~dumpOK
    THEN [err |-> "failed to get peer stats", isNil |-> TRUE, stats |-> <<>>,
          calls |-> <<Call("wg show dump", FALSE)>>]
    ELSE [err |-> "", isNil |-> FALSE,
          stats |-> [k \in DOMAIN dump |->
                        [PublicKey |-> k,
                         Endpoint |-> dump[k].endpoint,
                         LatestHandshake |-> IF dump[k].latest_handshake > 0
                                             THEN dump[k].latest_handshake ELSE 0,
                         TransferRx |-> dump[k].transfer_rx,
                         TransferTx |-> dump[k].transfer_tx,
                         IsOnline |-> IsOnline(IF dump[k].latest_handshake > 0
                                               THEN dump[k].latest_handshake ELSE 0, t)]],
          calls |-> <<Call("wg show dump", TRUE)>>]

---------------------------------------------------------------------------
(* internal/handlers/peers.go *)

Reply(status, error, body) == [status |-> status, error |-> error, body |-> body]

\* models.PeerResponse of a row: no private key, the statistics at their zero values
PeerResponse(peer) ==
    [id |-> peer.id, name |-> peer.name, public_key |-> peer.public_key,
     assigned_ip |-> peer.assigned_ip, enabled |-> peer.enabled,
     created_at |-> peer.created_at,
     is_online |-> FALSE, latest_handshake |-> 0, transfer_rx |-> 0, transfer_tx |-> 0,
     endpoint |-> ""]

\* what a handler leaves behind; a handler overrides the parts it changes
Unchanged ==
    [peers |-> peers, nextID |-> nextID, nextKey |-> nextKey, logs |-> logs,
     nextLogID |-> nextLogID, live |-> live, saved |-> saved, calls |-> <<>>,
     resp |-> Reply(0, "", <<>>)]

ReqIPs ==
    {HostIP(WGSubnet, h) : h \in FirstHost..(FirstHost + MaxKeys - 1)} \cup {<<10, 8, 0, 256>>}

NewPeer(name, keys, assignedIP) ==
    [name |-> name, public_key |-> keys.publicKey, private_key |-> keys.privateKey,
     assigned_ip |-> assignedIP, enabled |-> TRUE]

\* a rollback that deletes nothing
RollbackCreate_NothingDeleted(ps, lg, assignedIP, deleteOK) ==
    [err |-> "", peers |-> ps, logs |-> lg, calls |-> <<Call("db delete", deleteOK)>>]

\* peers.go:76, the rollback of the row CreatePeer inserted; its error is dropped
RollbackCreate(ps, lg, assignedIP, deleteOK) == DBDeletePeer(ps, lg, assignedIP, deleteOK)

CreateFaults == {"none", "keygen", "scan", "insert", "select", "set", "save"}
UpdateFaults == {"none", "get", "set", "save", "name", "enabled", "select"}
DeleteFaults == {"none", "get", "set", "save", "delete"}

CreatePeerHandler(name, t, fault, rollbackOK) ==
    IF name = {}
    THEN [Unchanged EXCEPT !.resp = Reply(400, "Invalid request body", <<>>)]
    ELSE IF fault = "keygen"
    THEN [Unchanged EXCEPT !.resp = Reply(500, "Failed to generate key pair", <<>>)]
    ELSE
    LET keys == GenerateKeyPair(nextKey)
        next == IF fault # "scan" THEN GetNextAvailableIP(WGSubnet, AssignedIPs(peers))
                ELSE [err |-> "query failed", ip |-> <<>>]
    IN
    IF next.err # ""
    THEN [Unchanged EXCEPT !.nextKey = nextKey + 1,
                           !.resp = Reply(500, "Failed to assign IP address", <<>>)]
    ELSE
    LET created == DBCreatePeer(peers, nextID, NewPeer(Some(name), keys, next.ip), t, fault)
        ins == <<Call("db insert", created.peers # peers)>>
    IN
    IF created.err # ""
    THEN [Unchanged EXCEPT !.nextKey = nextKey + 1, !.peers = created.peers,
                           !.nextID = created.nextID, !.calls = ins,
                           !.resp = Reply(500, "Failed to create peer", <<>>)]
    ELSE
    LET added == AddPeer(live, saved, keys.publicKey, next.ip, fault)
    IN
    IF added.err # ""
    THEN LET undone == RollbackCreate(created.peers, logs, next.ip, rollbackOK)
         IN  [Unchanged EXCEPT !.nextKey = nextKey + 1, !.peers = undone.peers,
                               !.logs = undone.logs, !.nextID = created.nextID,
                               !.live = added.live, !.saved = added.saved,
                               !.calls = ins \o added.calls \o undone.calls,
                               !.resp = Reply(500, "Failed to add peer to WireGuard", <<>>)]
    ELSE [Unchanged EXCEPT !.nextKey = nextKey + 1, !.peers = created.peers,
                           !.nextID = created.nextID,
                           !.live = added.live, !.saved = added.saved,
                           !.calls = ins \o added.calls,
                           !.resp = Reply(201, "", <<PeerResponse(created.peer)>>)]

\* one row of the listing: the row's fields, and the statistics when there are any
ListEntry(peer, st) ==
    IF ~st.isNil /\ peer.public_key \in DOMAIN st.stats
    THEN LET ps == st.stats[peer.public_key]
         IN  [PeerResponse(peer) EXCEPT !.is_online = ps.IsOnline,
                                        !.latest_handshake = ps.LatestHandshake,
                                        !.transfer_rx = ps.TransferRx,
                                        !.transfer_tx = ps.TransferTx,
                                        !.endpoint = ps.Endpoint]
    ELSE PeerResponse(peer)

\* peers.go:136, whether the loop calls AddConnectionLog for this peer
ShouldLog(peer, st, loggingEnabled) ==
    /\ ~st.isNil
    /\ peer.public_key \in DOMAIN st.stats
    /\ loggingEnabled
    /\ st.stats[peer.public_key].IsOnline
    /\ st.stats[peer.public_key].Endpoint # ""

\* the loop over the rows: every way its AddConnectionLog calls can end
RECURSIVE LogLoop(_, _, _, _, _, _)
LogLoop(rows, st, loggingEnabled, lg, id, t) ==
    IF rows = <<>>
    THEN {[logs |-> lg, nextLogID |-> id]}
    ELSE LET peer == Head(rows)
         IN  IF ShouldLog(peer, st, loggingEnabled)
             THEN UNION {LogLoop(Tail(rows), st, loggingEnabled, o.logs, o.nextLogID, t) :
                           o \in AddConnectionLogOutcomes(lg, id, peer.id,
                                     st.stats[peer.public_key].Endpoint, t)}
             ELSE LogLoop(Tail(rows), st, loggingEnabled, lg, id, t)

\* rows is nil (the empty set) when GetAllPeers failed, else a pointer to the rows in
\* the order the query returned them; logged is the outcome of the loop's log writes
ListPeersHandler(rows, st, logged) ==
    IF rows = {}
    THEN [Unchanged EXCEPT !.resp = Reply(500, "Failed to retrieve peers", <<>>)]
    ELSE [Unchanged EXCEPT !.logs = logged.logs, !.nextLogID = logged.nextLogID,
                           !.calls = st.calls,
                           !.resp = Reply(200, "",
                                [i \in DOMAIN Some(rows) |-> ListEntry(Some(rows)[i], st)])]

\* the enable branch without its test of the row's flag
NeedsAdd_WheneverRequested(enabled, peer) == enabled # {} /\ Some(enabled)

\* peers.go:178 and peers.go:187
NeedsAdd(enabled, peer) == enabled # {} /\ Some(enabled) /\ ~peer.enabled
NeedsRemove(enabled, peer) == enabled # {} /\ ~Some(enabled) /\ peer.enabled

\* body is nil when the JSON body does not bind
UpdatePeerHandler(ip, body, t, fault) ==
    IF ~ValidateIP(ip)
    THEN [Unchanged EXCEPT !.resp = Reply(400, "Invalid IP address format", <<>>)]
    ELSE IF body = {}
    THEN [Unchanged EXCEPT !.resp = Reply(400, "Invalid request body", <<>>)]
    ELSE
    LET r == Some(body)
        got == GetPeerByIP(peers, ip, fault # "get")
    IN
    IF got.err # ""
    THEN [Unchanged EXCEPT !.resp = Reply(404, "Peer not found", <<>>)]
    ELSE
    LET peer == got.peer
        wg == IF NeedsAdd(r.enabled, peer)
              THEN AddPeer(live, saved, peer.public_key, peer.assigned_ip, fault)
              ELSE IF NeedsRemove(r.enabled, peer)
              THEN RemovePeer(live, saved, peer.public_key, fault)
              ELSE [err |-> "", live |-> live, saved |-> saved, calls |-> <<>>]
    IN
    IF wg.err # ""
    THEN [Unchanged EXCEPT !.live = wg.live, !.saved = wg.saved, !.calls = wg.calls,
                           !.resp = Reply(500,
                               IF NeedsAdd(r.enabled, peer) THEN "Failed to enable peer"
                               ELSE "Failed to disable peer", <<>>)]
    ELSE
    LET upd == DBUpdatePeer(peers, ip, r.name, r.enabled, t, fault)
    IN  [Unchanged EXCEPT !.live = wg.live, !.saved = wg.saved, !.peers = upd.peers,
                          !.calls = wg.calls \o upd.calls,
                          !.resp = IF upd.err # ""
                                   THEN Reply(500, "Failed to update peer", <<>>)
                                   ELSE Reply(200, "", <<PeerResponse(upd.peer)>>)]

\* peers.go:246, reached only after RemovePeer returned nil
DeleteRow(ps, lg, ip, deleteOK) == DBDeletePeer(ps, lg, ip, deleteOK)

DeletePeerHandler(ip, fault) ==
    IF ~ValidateIP(ip)
    THEN [Unchanged EXCEPT !.resp = Reply(400, "Invalid IP address format", <<>>)]
    ELSE
    LET got == GetPeerByIP(peers, ip, fault # "get")
    IN
    IF got.err # ""
    THEN [Unchanged EXCEPT !.resp = Reply(404, "Peer not found", <<>>)]
    ELSE
    LET wg == RemovePeer(live, saved, got.peer.public_key, fault)
    IN
    IF wg.err # ""
    THEN [Unchanged EXCEPT !.live = wg.live, !.saved = wg.saved, !.calls = wg.calls,
                           !.resp = Reply(500, "Failed to remove peer from WireGuard", <<>>)]
    ELSE
    LET del == DeleteRow(peers, logs, ip, fault # "delete")
    IN  [Unchanged EXCEPT !.live = wg.live, !.saved = wg.saved, !.peers = del.peers,
                          !.logs = del.logs, !.calls = wg.calls \o del.calls,
                          !.resp = IF del.err # ""
                                   THEN Reply(500, "Failed to delete peer from database", <<>>)
                                   ELSE Reply(200, "", <<>>)]

---------------------------------------------------------------------------
(* package auth, and the users and refresh_tokens tables of package db *)

\* a string is modelled by what the code can observe of it: how it was made, from
\* what, and its length
Text(n, len) == [typ |-> "text", n |-> n, len |-> len]
EmptyString == Text(0, 0)

SHA256Size == 32
RandBytes == 32
APITokenLen == 43
AccessExpiry == 2       \* cfg.JWT.AccessExpiryMinutes, in clock steps
RefreshExpiry == 2      \* cfg.JWT.RefreshExpiryDays, in clock steps
JWTClaimsLen == 120     \* bytes of the JSON claims object

\* base64.RawURLEncoding.EncodedLen and base64.URLEncoding.EncodedLen
RawEncodedLen(n) == (8 * n + 5) \div 6
EncodedLen(n) == 4 * ((n + 2) \div 3)

AdminUsername == "admin"                \* cfg.Admin.Username
ConfigPassword == "admin"               \* cfg.Admin.Password
Passwords == {"admin", "hunter2"}
Usernames == {"admin", "guest"}

\* bcrypt: the hash verifies exactly the password it was made from
HashPassword(password) == [bcrypt |-> password]
VerifyPassword(password, hash) == IF hash.bcrypt = password THEN "" ELSE "invalid password"

\* an API token that depends on the signing secret handed in as second argument
GenerateAPIToken_Keyed(password, secret) ==
    [typ |-> "hmac", of |-> password, key |-> secret, len |-> RawEncodedLen(SHA256Size)]

\* HMAC-SHA256 of the password under the fixed salt, base64url without padding,
\* cut to 43 characters; the second argument is not used
GenerateAPIToken(password, secret) ==
    LET token == [typ |-> "hmac", of |-> password, len |-> RawEncodedLen(SHA256Size)]
    IN  IF token.len > APITokenLen THEN [token EXCEPT !.len = APITokenLen] ELSE token

\* header.claims.signature, HS256 under the secret
GenerateAccessToken(userID, username, secret, t) ==
    [typ |-> "jwt", user_id |-> userID, username |-> username, exp |-> t + AccessExpiry,
     key |-> secret,
     len |-> RawEncodedLen(27) + 1 + RawEncodedLen(JWTClaimsLen) + 1 + RawEncodedLen(SHA256Size)]

GenerateRefreshToken(n) == [typ |-> "rand", n |-> n, len |-> EncodedLen(RandBytes)]

\* a validation that does not look at the expiry claim
ValidateAccessToken_ExpiryIgnored(tokenString, secret, t) ==
    IF tokenString.typ # "jwt" THEN "invalid token"
    ELSE IF tokenString.key # secret THEN "invalid token"
    ELSE ""

\* the error of jwt.ParseWithClaims: the signature is checked before the claims;
\* the token is valid while the clock is before exp
ValidateAccessToken(tokenString, secret, t) ==
    IF tokenString.typ # "jwt" THEN "invalid token"
    ELSE IF tokenString.key # secret THEN "invalid token"
    ELSE IF ~(t < tokenString.exp) THEN "token has expired"
    ELSE ""

GetRefreshTokenExpiry(t) == t + RefreshExpiry

\* INSERT INTO users (username, password_hash, api_token) VALUES (?, ?, '')
CreateUser(us, username, passwordHash) ==
    us \cup {[id |-> Cardinality(us) + 1, username |-> username,
              password_hash |-> passwordHash, api_token |-> EmptyString]}

UserExists(us, username) == \E u \in us : u.username = username
GetUserByID(us, id) == {u \in us : u.id = id}
GetUserByUsername(us, username) == {u \in us : u.username = username}

\* a lookup that also matches the empty credential
GetUserByAPIToken_EmptyMatches(us, token) == {u \in us : u.api_token = token}

\* WHERE api_token = ? AND api_token != ''
GetUserByAPIToken(us, token) ==
    IF token = EmptyString THEN {}
    ELSE {u \in us : u.api_token = token /\ u.api_token # EmptyString}

\* an UPDATE of api_token that writes nothing
UpdateUserAPIToken_NotWritten(us, userID, apiToken) == us

UpdateUserAPIToken(us, userID, apiToken) ==
    {IF u.id = userID THEN [u EXCEPT !.api_token = apiToken] ELSE u : u \in us}
UpdateUserPassword(us, userID, passwordHash) ==
    {IF u.id = userID THEN [u EXCEPT !.password_hash = passwordHash] ELSE u : u \in us}

SaveRefreshToken(rts, userID, token, expiresAt) ==
    rts \cup {[user_id |-> userID, token |-> token, expires_at |-> expiresAt]}
GetRefreshToken(rts, token) == {r \in rts : r.token = token}

\* DELETE FROM refresh_tokens without its WHERE clause
DeleteRefreshToken_Every(rts, token) == {}

DeleteRefreshToken(rts, token) == {r \in rts : r.token # token}
DeleteUserRefreshTokens(rts, userID) == {r \in rts : r.user_id # userID}
\* a purge that also removes the tokens expiring at this very instant
CleanExpiredTokens_ThroughNow(rts, t) == {r \in rts : r.expires_at > t}

\* DELETE FROM refresh_tokens WHERE expires_at < now
CleanExpiredTokens(rts, t) == {r \in rts : ~(r.expires_at < t)}

\* ensureAdminUser
\* cfg.WireGuard as config.Load reads it from the configuration file
FileConfig == [dns |-> "1.1.1.1", allowed_ips |-> "0.0.0.0/0"]
DNSValues == {"9.9.9.9"}
AllowedIPsValues == {"10.8.0.0/24"}

\* loadSavedSettings: the saved DNS and AllowedIPs replace the configured ones
LoadSavedSettings(cfg, st) ==
    [dns |-> IF "dns" \in DOMAIN st /\ st["dns"] # "" THEN st["dns"] ELSE cfg.dns,
     allowed_ips |-> IF "allowed_ips" \in DOMAIN st /\ st["allowed_ips"] # ""
                     THEN st["allowed_ips"] ELSE cfg.allowed_ips]

EnsureAdminUser(us) ==
    IF UserExists(us, AdminUsername) THEN us
    ELSE CreateUser(us, AdminUsername, HashPassword(ConfigPassword))

\* no browser has the web client open
NoClient == [accessToken |-> {}, cookie |-> {}, page |-> "", task |-> <<>>]

\* main has started the maintenance goroutine and the server and waits for a signal
MainStart ==
    /\ ctxDone = FALSE
    /\ tickerC = FALSE
    /\ dbOpen = TRUE
    /\ mainPC = "serving"
    /\ maintPC = "select"

\* the credential tables and the secret after main has started the service on
\* an empty database
AuthStart ==
    /\ users = EnsureAdminUser({})
    /\ refresh_tokens = {}
    /\ accessSecret = 1
    /\ nextToken = 1
    /\ rotated = {}
    /\ visitors = <<>>
    /\ attempts = [ip \in Sources |-> <<>>]
    /\ config = FileConfig
    /\ MainStart
    /\ client = NoClient

---------------------------------------------------------------------------
(* The service: one request at a time *)

Procs == 1..MaxProcs
IdleProc == [pc |-> "idle", name |-> "", keys |-> <<>>, ip |-> <<>>, peer |-> <<>>,
             calls |-> <<>>, rivals |-> {}, resp |-> Reply(0, "", <<>>)]
NoProcs == [p \in Procs |-> IdleProc]
NoAlloc == [subnet |-> WGSubnet, used |-> {}, result |-> <<>>]
NoRequest == [op |-> "none", ip |-> <<>>, name |-> {}, enabled |-> {}]
Request(op, ip, name, enabled) == [op |-> op, ip |-> ip, name |-> name, enabled |-> enabled]

Init ==
    /\ peers = {}
    /\ nextID = 1
    /\ nextKey = 1
    /\ logs = {}
    /\ nextLogID = 1
    /\ settings = <<>>
    /\ live = <<>>
    /\ saved = <<>>
    /\ now = Epoch
    /\ req = NoRequest
    /\ resp = Reply(0, "", <<>>)
    /\ calls = <<>>
    /\ alloc = NoAlloc
    /\ procs = NoProcs /\ AuthStart

\* the state a handler's outcome o leaves, the request having been r
Apply(o, r) ==
    /\ peers' = o.peers
    /\ nextID' = o.nextID
    /\ nextKey' = o.nextKey
    /\ logs' = o.logs
    /\ nextLogID' = o.nextLogID
    /\ live' = o.live
    /\ saved' = o.saved
    /\ calls' = o.calls
    /\ resp' = o.resp
    /\ req' = r
    /\ UNCHANGED <<settings, now, alloc, procs, authVars>>

Idle == req.op = "none"

CreatePeer ==
    /\ Idle
    /\ nextKey <= MaxKeys
    /\ \E name \in Opt(Names) :
       \E fault \in CreateFaults, rollbackOK \in BOOLEAN :
          Apply(CreatePeerHandler(name, now, fault, rollbackOK),
                Request("create", <<>>, name, {}))

ListPeers ==
    /\ Idle
    /\ \E readOK, dumpOK, settingOK \in BOOLEAN :
       \E dump \in [DOMAIN live -> DumpLines(now)] :
       \E rows \in (IF readOK THEN {{s} : s \in GetAllPeers(peers)} ELSE {{}}) :
          LET st == GetPeerStats(dump, dumpOK, now)
              loggingEnabled == GetSetting(settings, "logging_enabled", settingOK) = "true"
          IN  \E logged \in (IF rows = {} THEN {[logs |-> logs, nextLogID |-> nextLogID]}
                             ELSE LogLoop(Some(rows), st, loggingEnabled, logs, nextLogID, now)) :
                 /\ Cardinality(logged.logs) <= MaxLogs
                 /\ Apply(ListPeersHandler(rows, st, logged), Request("list", <<>>, {}, {}))

UpdatePeer ==
    /\ Idle
    /\ \E ip \in ReqIPs, bindOK \in BOOLEAN, name \in Opt(Names), enabled \in Opt(BOOLEAN) :
       \E fault \in UpdateFaults :
          Apply(UpdatePeerHandler(ip,
                                  IF bindOK THEN {[name |-> name, enabled |-> enabled]} ELSE {},
                                  now, fault),
                Request("update", ip, name, enabled))

DeletePeer ==
    /\ Idle
    /\ \E ip \in ReqIPs :
       \E fault \in DeleteFaults :
          Apply(DeletePeerHandler(ip, fault),
                Request("delete", ip, {}, {}))

\* SettingsHandler.UpdateSettings with the logging_enabled field alone
UpdateLogging ==
    /\ Idle
    /\ \E loggingEnabled, writeOK \in BOOLEAN :
       /\ settings' = IF writeOK
                      THEN SetSetting(settings, "logging_enabled",
                                      IF loggingEnabled THEN "true" ELSE "false")
                      ELSE settings
       /\ req' = Request("settings", <<>>, {}, {loggingEnabled})
       /\ resp' = IF writeOK THEN Reply(200, "", <<>>)
                  ELSE Reply(500, "Failed to update logging setting", <<>>)
       /\ calls' = <<Call("db set setting", writeOK)>>
       /\ UNCHANGED <<peers, nextID, nextKey, logs, nextLogID, live, saved, now, alloc, procs, authVars>>

\* the response has been written: the service waits for the next request
Respond ==
    /\ ~Idle
    /\ req' = NoRequest
    /\ resp' = Reply(0, "", <<>>)
    /\ calls' = <<>>
    /\ UNCHANGED <<peers, nextID, nextKey, logs, nextLogID, settings, live, saved, now, alloc, procs, authVars>>

\* The provisioning engine: create, update and delete requests, one at a time.
Next ==
    \/ CreatePeer
    \/ UpdatePeer
    \/ DeletePeer
    \/ Respond

Spec == Init /\ [][Next]_vars

\* The listing: peers come and go, logging is switched on and off, the list is read.
NextList ==
    \/ CreatePeer
    \/ DeletePeer
    \/ ListPeers
    \/ UpdateLogging
    \/ Respond

SpecList == Init /\ [][NextList]_vars

---------------------------------------------------------------------------
(* GetNextAvailableIP on its own, over tables the service can hold *)

Subnets ==
    {WGSubnet,
     [addr |-> <<10, 100, 0, 0>>, prefix |-> 24],
     [addr |-> <<192, 168, 77, 0>>, prefix |-> 16]}

\* the hosts next to the two ends of the range GetNextAvailableIP scans
EndHosts ==
    {h \in FirstHost..(HostLimit - 1) :
        h < FirstHost + AllocWindow \/ h >= HostLimit - AllocWindow}

\* the tables CreatePeer and DeletePeer can leave behind: any of the hosts near the two
\* ends assigned, the hosts between them all assigned or all free, and rows that a
\* service configured with another subnet inserted earlier
InitAlloc ==
    /\ peers = {} /\ nextID = 1 /\ nextKey = 1 /\ logs = {} /\ nextLogID = 1
    /\ settings = <<>> /\ live = <<>> /\ saved = <<>> /\ now = Epoch
    /\ req = NoRequest /\ resp = Reply(0, "", <<>>) /\ calls = <<>> /\ procs = NoProcs /\ AuthStart
    /\ \E subnet \in Subnets, ends \in SUBSET EndHosts, middle \in BOOLEAN :
       \E foreign \in SUBSET (Subnets \ {subnet}) :
          alloc = [subnet |-> subnet,
                   used |-> {HostIP(subnet, h) :
                                h \in ends \cup IF middle
                                                THEN (FirstHost..(HostLimit - 1)) \ EndHosts
                                                ELSE {}}
                            \cup {HostIP(o, FirstHost) : o \in foreign},
                   result |-> <<>>]

Allocate ==
    /\ alloc.result = <<>>
    /\ alloc' = [alloc EXCEPT !.result = GetNextAvailableIP(alloc.subnet, alloc.used)]
    /\ UNCHANGED <<peers, nextID, nextKey, logs, nextLogID, settings, live, saved, now, req,
                   resp, calls, procs, authVars>>

NextAlloc == Allocate

SpecAlloc == InitAlloc /\ [][NextAlloc]_vars

---------------------------------------------------------------------------
(* The provisioning engine on a subnet that is nearly full *)

\* the row an earlier CreatePeer left for host h
FullRow(h) ==
    [id |-> h - 1, name |-> "alice",
     public_key |-> GenerateKeyPair(HostLimit + h).publicKey,
     private_key |-> GenerateKeyPair(HostLimit + h).privateKey,
     assigned_ip |-> HostIP(WGSubnet, h), enabled |-> TRUE,
     created_at |-> Epoch, updated_at |-> Epoch]

\* the service after creates have filled the subnet and deletes have freed one or
\* two addresses: every row enabled and live, the configuration saved
InitFull ==
    /\ \E free \in (SUBSET {FirstHost + 1, HostLimit - 1}) \ {{}} :
          /\ peers = {FullRow(h) : h \in (FirstHost..(HostLimit - 1)) \ free}
          /\ live = [k \in {FullRow(h).public_key : h \in (FirstHost..(HostLimit - 1)) \ free} |->
                        {p.assigned_ip : p \in {FullRow(h) : h \in {x \in FirstHost..(HostLimit - 1) :
                                                                   FullRow(x).public_key = k}}}]
    /\ saved = live
    /\ nextID = HostLimit
    /\ nextKey = 1
    /\ logs = {}
    /\ nextLogID = 1
    /\ settings = <<>>
    /\ now = Epoch
    /\ req = NoRequest
    /\ resp = Reply(0, "", <<>>)
    /\ calls = <<>>
    /\ alloc = NoAlloc
    /\ procs = NoProcs /\ AuthStart

\* creates only: what happens once the last address is taken and nothing is deleted
NextFull ==
    \/ CreatePeer
    \/ Respond

SpecFull == InitFull /\ [][NextFull]_vars

---------------------------------------------------------------------------
(* CreatePeer served by several goroutines at once.  database/sql runs one     *)
(* statement at a time on the single connection (SetMaxOpenConns(1)), and each *)
(* wg or wg-quick command is one process: the steps below are those units.     *)

RaceFrame == UNCHANGED <<logs, nextLogID, settings, now, req, resp, calls, alloc, authVars>>

\* the handler ends with this response
Finish(p, calls2, reply) ==
    [procs EXCEPT ![p].pc = "done", ![p].calls = calls2, ![p].resp = reply]

\* peers.go:28-53: the body binds, GenerateKeyPair, GetNextAvailableIP; the other
\* goroutines that hold the same address and have not inserted yet become rivals
RaceScan(p) ==
    /\ procs[p].pc = "idle"
    /\ nextKey <= MaxKeys
    /\ \E name \in Names, fault \in {"none", "body", "keygen", "scan"} :
          LET keys == GenerateKeyPair(nextKey)
              next == IF fault = "scan" THEN [err |-> "query failed", ip |-> <<>>]
                      ELSE GetNextAvailableIP(WGSubnet, AssignedIPs(peers))
              same == {q \in Procs \ {p} : procs[q].pc = "insert" /\ procs[q].ip = next.ip}
              early == IF fault = "body" THEN Reply(400, "Invalid request body", <<>>)
                       ELSE IF fault = "keygen" THEN Reply(500, "Failed to generate key pair", <<>>)
                       ELSE IF next.err # "" THEN Reply(500, "Failed to assign IP address", <<>>)
                       ELSE Reply(0, "", <<>>)
          IN  /\ procs' = [q \in Procs |->
                             IF q = p
                             THEN IF early.status # 0
                                  THEN [IdleProc EXCEPT !.pc = "done", !.resp = early]
                                  ELSE [IdleProc EXCEPT !.pc = "insert", !.name = name,
                                           !.keys = keys, !.ip = next.ip, !.rivals = same]
                             ELSE IF q \in same /\ early.status = 0
                                  THEN [procs[q] EXCEPT !.rivals = @ \cup {p}]
                                  ELSE procs[q]]
              /\ nextKey' = IF fault \in {"body", "keygen"} THEN nextKey ELSE nextKey + 1
    /\ UNCHANGED <<peers, nextID, live, saved>>
    /\ RaceFrame

\* peers.go:56-71: db.DB.CreatePeer
RaceInsert(p) ==
    /\ procs[p].pc = "insert"
    /\ \E fault \in {"none", "insert", "select"} :
          LET me == procs[p]
              created == DBCreatePeer(peers, nextID, NewPeer(me.name, me.keys, me.ip), now, fault)
              ins == <<Call("db insert", created.peers # peers)>>
          IN  /\ peers' = created.peers
              /\ nextID' = created.nextID
              /\ procs' = IF created.err # ""
                          THEN Finish(p, ins, Reply(500, "Failed to create peer", <<>>))
                          ELSE [procs EXCEPT ![p].pc = "wgset", ![p].calls = ins,
                                             ![p].peer = created.peer]
    /\ UNCHANGED <<nextKey, live, saved>>
    /\ RaceFrame

\* wgmanager.go:116-137, the wg set of AddPeer
RaceSet(p) ==
    /\ procs[p].pc = "wgset"
    /\ \E ok \in BOOLEAN :
          /\ live' = IF ok THEN WgSetPeer(live, procs[p].keys.publicKey, procs[p].ip) ELSE live
          /\ procs' = [procs EXCEPT ![p].pc = IF ok THEN "save" ELSE "rollback",
                                    ![p].calls = @ \o <<Call("wg set peer", ok)>>]
    /\ UNCHANGED <<peers, nextID, nextKey, saved>>
    /\ RaceFrame

\* wgmanager.go:139-144, the SaveConfig of AddPeer, and peers.go:84-91 after it
RaceSave(p) ==
    /\ procs[p].pc = "save"
    /\ \E ok \in BOOLEAN :
          LET s == SaveConfig(live, saved, ok)
              me == procs[p]
          IN  /\ saved' = s.saved
              /\ procs' = IF ok
                          THEN Finish(p, me.calls \o s.calls,
                                      Reply(201, "", <<PeerResponse(me.peer)>>))
                          ELSE [procs EXCEPT ![p].pc = "rollback", ![p].calls = @ \o s.calls]
    /\ UNCHANGED <<peers, nextID, nextKey, live, logs>>
    /\ RaceFrame

\* peers.go:76-81
RaceRollback(p) ==
    /\ procs[p].pc = "rollback"
    /\ \E ok \in BOOLEAN :
          LET undone == RollbackCreate(peers, logs, procs[p].ip, ok)
          IN  /\ peers' = undone.peers
              /\ procs' = Finish(p, procs[p].calls \o undone.calls,
                                 Reply(500, "Failed to add peer to WireGuard", <<>>))
    /\ UNCHANGED <<nextID, nextKey, live, saved>>
    /\ RaceFrame

\* the goroutine ends; a later request is served by a new one
RaceEnd(p) ==
    /\ procs[p].pc = "done"
    /\ procs' = [q \in Procs |->
                   IF q = p THEN IdleProc ELSE [procs[q] EXCEPT !.rivals = @ \ {p}]]
    /\ UNCHANGED <<peers, nextID, nextKey, live, saved>>
    /\ RaceFrame

NextRace ==
    \E p \in Procs :
       \/ RaceScan(p)
       \/ RaceInsert(p)
       \/ RaceSet(p)
       \/ RaceSave(p)
       \/ RaceRollback(p)
       \/ RaceEnd(p)

SpecRace == Init /\ [][NextRace]_vars

---------------------------------------------------------------------------
(* Authentication: login, refresh, logout, password change, the access gate *)

AuthUnchanged ==
    [users |-> users, refresh_tokens |-> refresh_tokens, nextToken |-> nextToken,
     resp |-> Reply(0, "", <<>>), calls |-> <<>>]

\* models.LoginResponse, and the refresh_token cookie set with it
LoginResponse(accessToken, apiToken, cookie) ==
    [access_token |-> accessToken, api_token |-> apiToken, refresh_token |-> cookie]

LoginFaults == {"none", "get", "update", "sign", "rand", "save"}

\* AuthHandler.Login; body is nil when the JSON does not bind
LoginHandler(body, fault, t) ==
    IF body = {}
    THEN [AuthUnchanged EXCEPT !.resp = Reply(400, "Invalid request body", <<>>)]
    ELSE
    LET r == Some(body)
        found == IF fault = "get" THEN {} ELSE GetUserByUsername(users, r.username)
    IN
    IF found = {}
    THEN [AuthUnchanged EXCEPT !.resp = Reply(401, "Invalid credentials", <<>>)]
    ELSE
    LET user == Some(found) IN
    IF VerifyPassword(r.password, user.password_hash) # ""
    THEN [AuthUnchanged EXCEPT !.resp = Reply(401, "Invalid credentials", <<>>)]
    ELSE
    LET apiToken == GenerateAPIToken(r.password, accessSecret)
        differs == user.api_token # apiToken
        c1 == IF differs THEN <<Call("db update api_token", fault # "update")>> ELSE <<>>
        us2 == IF differs THEN UpdateUserAPIToken(users, user.id, apiToken) ELSE users
    IN
    IF differs /\ fault = "update"
    THEN [AuthUnchanged EXCEPT !.resp = Reply(500, "Failed to update API token", <<>>),
                               !.calls = c1]
    ELSE IF fault = "sign"
    THEN [AuthUnchanged EXCEPT !.users = us2, !.calls = c1,
                               !.resp = Reply(500, "Failed to generate access token", <<>>)]
    ELSE IF fault = "rand"
    THEN [AuthUnchanged EXCEPT !.users = us2, !.calls = c1,
                               !.resp = Reply(500, "Failed to generate refresh token", <<>>)]
    ELSE
    LET accessToken == GenerateAccessToken(user.id, user.username, accessSecret, t)
        refreshToken == GenerateRefreshToken(nextToken)
    IN
    IF fault = "save"
    THEN [AuthUnchanged EXCEPT !.users = us2, !.nextToken = nextToken + 1,
                               !.calls = c1 \o <<Call("db insert refresh_token", FALSE)>>,
                               !.resp = Reply(500, "Failed to save refresh token", <<>>)]
    ELSE [users |-> us2,
          refresh_tokens |-> SaveRefreshToken(refresh_tokens, user.id, refreshToken,
                                              GetRefreshTokenExpiry(t)),
          nextToken |-> nextToken + 1,
          calls |-> c1 \o <<Call("db insert refresh_token", TRUE)>>,
          resp |-> Reply(200, "", <<LoginResponse(accessToken, apiToken, refreshToken)>>)]

RefreshFaults == {"none", "get", "user", "sign", "rand", "save"}

\* a rotation that leaves the presented token's row in place
RotateOld_Kept(rts, token, deleteOK) == rts

\* db.DB.DeleteRefreshToken(refreshToken), its error not looked at
RotateOld(rts, token, deleteOK) == IF deleteOK THEN DeleteRefreshToken(rts, token) ELSE rts

\* AuthHandler.Refresh; cookie is nil when the request carries no refresh_token cookie
RefreshHandler(cookie, fault, deleteOK, t) ==
    IF cookie = {}
    THEN [AuthUnchanged EXCEPT !.resp = Reply(401, "Refresh token not found", <<>>)]
    ELSE
    LET refreshToken == Some(cookie)
        found == IF fault = "get" THEN {} ELSE GetRefreshToken(refresh_tokens, refreshToken)
    IN
    IF found = {}
    THEN [AuthUnchanged EXCEPT !.resp = Reply(401, "Invalid refresh token", <<>>)]
    ELSE
    LET tokenData == Some(found)
        del == <<Call("db delete refresh_token", deleteOK)>>
        rts2 == RotateOld(refresh_tokens, refreshToken, deleteOK)
    IN
    IF t > tokenData.expires_at
    THEN [AuthUnchanged EXCEPT !.refresh_tokens = rts2, !.calls = del,
                               !.resp = Reply(401, "Refresh token expired", <<>>)]
    ELSE
    LET owner == IF fault = "user" THEN {} ELSE GetUserByID(users, tokenData.user_id) IN
    IF owner = {}
    THEN [AuthUnchanged EXCEPT !.resp = Reply(401, "User not found", <<>>)]
    ELSE IF fault = "sign"
    THEN [AuthUnchanged EXCEPT !.resp = Reply(500, "Failed to generate access token", <<>>)]
    ELSE
    LET user == Some(owner)
        accessToken == GenerateAccessToken(user.id, user.username, accessSecret, t)
        newRefreshToken == GenerateRefreshToken(nextToken)
    IN
    IF fault = "rand"
    THEN [AuthUnchanged EXCEPT !.refresh_tokens = rts2, !.calls = del,
                               !.resp = Reply(500, "Failed to generate refresh token", <<>>)]
    ELSE IF fault = "save"
    THEN [AuthUnchanged EXCEPT !.refresh_tokens = rts2, !.nextToken = nextToken + 1,
                               !.calls = del \o <<Call("db insert refresh_token", FALSE)>>,
                               !.resp = Reply(500, "Failed to save refresh token", <<>>)]
    ELSE [users |-> users,
          refresh_tokens |-> SaveRefreshToken(rts2, user.id, newRefreshToken,
                                              GetRefreshTokenExpiry(t)),
          nextToken |-> nextToken + 1,
          calls |-> del \o <<Call("db insert refresh_token", TRUE)>>,
          resp |-> Reply(200, "", <<LoginResponse(accessToken, user.api_token, newRefreshToken)>>)]

\* AuthHandler.Logout
LogoutHandler(cookie, deleteOK) ==
    IF cookie = {}
    THEN [AuthUnchanged EXCEPT !.resp = Reply(200, "", <<>>)]
    ELSE [AuthUnchanged EXCEPT
             !.refresh_tokens = IF deleteOK THEN DeleteRefreshToken(refresh_tokens, Some(cookie))
                                ELSE refresh_tokens,
             !.calls = <<Call("db delete refresh_token", deleteOK)>>,
             !.resp = Reply(200, "", <<>>)]

PasswordFaults == {"none", "hash", "get", "password", "token"}

\* SettingsHandler.UpdateSettings with the admin_password field alone; body is nil
\* when the JSON does not bind, adminPassword is nil when the field is absent
PasswordHandler(body, fault, deleteOK) ==
    IF body = {}
    THEN [AuthUnchanged EXCEPT !.resp = Reply(400, "Invalid request", <<>>)]
    ELSE
    LET adminPassword == Some(body).admin_password IN
    IF adminPassword = {} \/ adminPassword = {""}
    THEN [AuthUnchanged EXCEPT !.resp = Reply(200, "", <<>>)]
    ELSE IF fault = "hash"
    THEN [AuthUnchanged EXCEPT !.resp = Reply(500, "Failed to hash password", <<>>)]
    ELSE
    LET found == IF fault = "get" THEN {} ELSE GetUserByUsername(users, AdminUsername) IN
    IF found = {}
    THEN [AuthUnchanged EXCEPT !.resp = Reply(500, "Failed to find admin user", <<>>)]
    ELSE
    LET user == Some(found)
        us2 == UpdateUserPassword(users, user.id, HashPassword(Some(adminPassword)))
        newAPIToken == GenerateAPIToken(Some(adminPassword), accessSecret)
    IN
    IF fault = "password"
    THEN [AuthUnchanged EXCEPT !.calls = <<Call("db update password", FALSE)>>,
                               !.resp = Reply(500, "Failed to update password", <<>>)]
    ELSE IF fault = "token"
    THEN [AuthUnchanged EXCEPT !.users = us2,
                               !.calls = <<Call("db update password", TRUE),
                                           Call("db update api_token", FALSE)>>,
                               !.resp = Reply(500, "Failed to update API token", <<>>)]
    ELSE [AuthUnchanged EXCEPT
             !.users = UpdateUserAPIToken(us2, user.id, newAPIToken),
             !.refresh_tokens = IF deleteOK THEN DeleteUserRefreshTokens(refresh_tokens, user.id)
                                ELSE refresh_tokens,
             !.calls = <<Call("db update password", TRUE), Call("db update api_token", TRUE),
                         Call("db delete refresh_tokens", deleteOK)>>,
             !.resp = Reply(200, "", <<>>)]

\* strings.ToLower of the scheme word
ToLower(word) == IF word \in {"Bearer", "bearer"} THEN "bearer" ELSE "basic"

Admitted == Reply(0, "", <<>>)      \* c.Next(): the handler runs
Gate(reply, lookups) == [resp |-> reply, calls |-> lookups]

\* a gate that lets a request without an Authorization header through
AuthMiddleware_NoHeaderAdmitted(header, lookupOK, t) ==
    IF header = <<>> THEN Gate(Admitted, <<>>)
    ELSE IF Len(header) # 2 \/ ToLower(header[1]) # "bearer"
    THEN Gate(Reply(401, "Invalid authorization format. Use: Bearer <token>", <<>>), <<>>)
    ELSE IF header[2] = EmptyString THEN Gate(Reply(401, "Token required", <<>>), <<>>)
    ELSE IF ValidateAccessToken(header[2], accessSecret, t) = "" THEN Gate(Admitted, <<>>)
    ELSE IF header[2].len = 43
    THEN LET found == lookupOK /\ GetUserByAPIToken(users, header[2]) # {}
         IN  Gate(IF found THEN Admitted ELSE Reply(401, "Invalid or expired token", <<>>),
                  <<Call("db select api_token", lookupOK)>>)
    ELSE Gate(Reply(401, "Invalid or expired token", <<>>), <<>>)

\* a gate that looks the bearer value up whatever its length
AuthMiddleware_AnyLength(header, lookupOK, t) ==
    IF header = <<>> THEN Gate(Reply(401, "Authorization header required", <<>>), <<>>)
    ELSE IF Len(header) # 2 \/ ToLower(header[1]) # "bearer"
    THEN Gate(Reply(401, "Invalid authorization format. Use: Bearer <token>", <<>>), <<>>)
    ELSE IF header[2] = EmptyString THEN Gate(Reply(401, "Token required", <<>>), <<>>)
    ELSE IF ValidateAccessToken(header[2], accessSecret, t) = "" THEN Gate(Admitted, <<>>)
    ELSE LET found == lookupOK /\ GetUserByAPIToken(users, header[2]) # {}
         IN  Gate(IF found THEN Admitted ELSE Reply(401, "Invalid or expired token", <<>>),
                  <<Call("db select api_token", lookupOK)>>)

\* middleware.AuthMiddleware; header is the Authorization header split at its
\* first space, <<>> when the header is absent or empty; the answer, and the
\* credential lookup if one was made
AuthMiddleware(header, lookupOK, t) ==
    IF header = <<>> THEN Gate(Reply(401, "Authorization header required", <<>>), <<>>)
    ELSE IF Len(header) # 2 \/ ToLower(header[1]) # "bearer"
    THEN Gate(Reply(401, "Invalid authorization format. Use: Bearer <token>", <<>>), <<>>)
    ELSE
    LET tokenString == header[2] IN
    IF tokenString = EmptyString THEN Gate(Reply(401, "Token required", <<>>), <<>>)
    ELSE IF ValidateAccessToken(tokenString, accessSecret, t) = "" THEN Gate(Admitted, <<>>)
    ELSE IF tokenString.len = 43
    THEN LET found == lookupOK /\ GetUserByAPIToken(users, tokenString) # {}
         IN  Gate(IF found THEN Admitted ELSE Reply(401, "Invalid or expired token", <<>>),
                  <<Call("db select api_token", lookupOK)>>)
    ELSE Gate(Reply(401, "Invalid or expired token", <<>>), <<>>)

\* the bearer values a client may present: access tokens issued now, at the edge
\* of expiry and past it, under the running secret and under another one; API
\* tokens; a refresh token; other strings of 43 and of other lengths
OtherSecret == (accessSecret % MaxSecrets) + 1
BearerValues ==
    {GenerateAccessToken(1, AdminUsername, k, t) :
        k \in {accessSecret, OtherSecret},
        t \in {now, now - AccessExpiry + 1, now - AccessExpiry}}
    \cup {GenerateAPIToken(p, accessSecret) : p \in Passwords}
    \cup {GenerateRefreshToken(1), Text(1, APITokenLen), Text(2, 20), EmptyString}
Headers ==
    {<<>>, <<"Bearer">>, <<"Basic", Text(1, APITokenLen)>>,
     <<"bearer", GenerateAPIToken(ConfigPassword, accessSecret)>>}
    \cup {<<"Bearer", v>> : v \in BearerValues}

RefreshTokens == {GenerateRefreshToken(n) : n \in 0..MaxTokens}

AuthRequest(op, username, password, token, header) ==
    [op |-> op, ip |-> <<>>, name |-> {}, enabled |-> {},
     username |-> username, password |-> password, token |-> token, header |-> header]

\* the state an authentication handler's outcome o leaves, the request having been r
AuthApply(o, r) ==
    /\ users' = o.users
    /\ refresh_tokens' = o.refresh_tokens
    /\ nextToken' = o.nextToken
    /\ calls' = o.calls
    /\ resp' = o.resp
    /\ req' = r
    /\ rotated' = IF r.op = "refresh" /\ o.resp.status = 200 THEN rotated \cup r.token
                  ELSE rotated
    /\ UNCHANGED <<peers, nextID, nextKey, logs, nextLogID, settings, live, saved, now, alloc,
                   procs, accessSecret, limitVars, config, mainVars, client>>

\* POST /api/v1/auth/login
Login ==
    /\ Idle
    /\ nextToken <= MaxTokens
    /\ \E bindOK \in BOOLEAN, username \in Usernames, password \in Passwords :
       \E fault \in LoginFaults :
          AuthApply(LoginHandler(IF bindOK THEN {[username |-> username, password |-> password]}
                                 ELSE {}, fault, now),
                    AuthRequest("login", username, password, {}, <<>>))

\* POST /api/v1/auth/refresh
Refresh ==
    /\ Idle
    /\ nextToken <= MaxTokens
    /\ \E cookie \in Opt(RefreshTokens), fault \in RefreshFaults, deleteOK \in BOOLEAN :
          AuthApply(RefreshHandler(cookie, fault, deleteOK, now),
                    AuthRequest("refresh", "", "", cookie, <<>>))

\* POST /api/v1/auth/logout
Logout ==
    /\ Idle
    /\ \E cookie \in Opt(RefreshTokens), deleteOK \in BOOLEAN :
          AuthApply(LogoutHandler(cookie, deleteOK),
                    AuthRequest("logout", "", "", cookie, <<>>))

\* the headers of a client of the settings page: none, an access token just
\* issued, the API token of each password
AdminHeaders ==
    {<<>>, <<"Bearer", GenerateAccessToken(1, AdminUsername, accessSecret, now)>>}
    \cup {<<"Bearer", GenerateAPIToken(p, accessSecret)>> : p \in Passwords}

\* PUT /api/v1/settings carrying admin_password, behind the gate
UpdatePassword ==
    /\ Idle
    /\ \E header \in AdminHeaders, lookupOK \in BOOLEAN :
          LET gate == AuthMiddleware(header, lookupOK, now) IN
          IF gate.resp # Admitted
          THEN AuthApply([AuthUnchanged EXCEPT !.resp = gate.resp, !.calls = gate.calls],
                         AuthRequest("password", "", {}, {}, header))
          ELSE \E bindOK \in BOOLEAN, adminPassword \in Opt(Passwords \cup {""}) :
               \E fault \in PasswordFaults, deleteOK \in BOOLEAN :
                  LET o == PasswordHandler(IF bindOK THEN {[admin_password |-> adminPassword]}
                                           ELSE {}, fault, deleteOK)
                  IN  AuthApply([o EXCEPT !.calls = gate.calls \o @],
                                AuthRequest("password", "", adminPassword, {}, header))

\* the process is stopped and started again: the database file stays, main runs
\* ensureAdminUser, the signing secret is the configured one or a newly drawn one
Restart ==
    /\ Idle
    /\ \E secret \in {accessSecret, Min({accessSecret + 1, MaxSecrets})} :
          accessSecret' = secret
    /\ accessSecret' # accessSecret
    /\ users' = EnsureAdminUser(users)
    /\ visitors' = <<>>
    /\ attempts' = [ip \in Sources |-> <<>>]
    /\ \E loadOK \in BOOLEAN :
          config' = IF loadOK THEN LoadSavedSettings(FileConfig, settings) ELSE FileConfig
    /\ UNCHANGED <<peers, nextID, nextKey, logs, nextLogID, settings, live, saved, now, req,
                   resp, calls, alloc, procs, refresh_tokens, nextToken, rotated, mainVars, client>>

\* time passes between two requests
Tick ==
    /\ Idle
    /\ now < Epoch + MaxTicks
    /\ now' = now + 1
    /\ UNCHANGED <<peers, nextID, nextKey, logs, nextLogID, settings, live, saved, req,
                   resp, calls, alloc, procs, authVars>>

\* the hourly goroutine of main: db.DB.CleanExpiredTokens; a run whose statement
\* fails is only logged and changes nothing; db.DB.Optimize and the memory
\* statistics after it change no table
CleanExpired ==
    /\ Idle
    /\ CleanExpiredTokens(refresh_tokens, now) # refresh_tokens
    /\ refresh_tokens' = CleanExpiredTokens(refresh_tokens, now)
    /\ calls' = <<Call("db clean expired_tokens", TRUE)>>
    /\ UNCHANGED <<peers, nextID, nextKey, logs, nextLogID, settings, live, saved, now, req,
                   resp, alloc, procs, users, accessSecret, nextToken, rotated,
                   limitVars, config, mainVars, client>>

NextAuth ==
    \/ Login
    \/ Refresh
    \/ Logout
    \/ UpdatePassword
    \/ Restart
    \/ Tick
    \/ CleanExpired
    \/ Respond

SpecAuth == Init /\ [][NextAuth]_vars

\* The tables together: peers and their connection logs, users and their tokens.
NextStore ==
    \/ NextList
    \/ Login

SpecStore == Init /\ [][NextStore]_vars

---------------------------------------------------------------------------
(* The router: the protected group behind the gate, the public routes beside it *)

\* the request r as it arrived with the header, and whether the gate let it through
Gated(r, header, gate) ==
    [op |-> r.op, ip |-> r.ip, name |-> r.name, enabled |-> r.enabled,
     header |-> header, admitted |-> gate.resp = Admitted]

\* c.Abort(): the gate has answered, no handler runs
Abort(op, header, gate) ==
    Apply([Unchanged EXCEPT !.resp = gate.resp, !.calls = gate.calls],
          Gated(Request(op, <<>>, {}, {}), header, gate))

\* the handler's outcome o, reached through the gate
Through(o, r, header, gate) ==
    Apply([o EXCEPT !.calls = gate.calls \o @], Gated(r, header, gate))

\* the headers of the requests that change something: those of the settings page,
\* and a value of 43 characters that is no credential
ClientHeaders == AdminHeaders \cup {<<"Bearer", Text(1, APITokenLen)>>}

\* POST /api/v1/peers
ServeCreatePeer ==
    /\ Idle
    /\ nextKey <= MaxKeys
    /\ \E header \in ClientHeaders, lookupOK \in BOOLEAN :
          LET gate == AuthMiddleware(header, lookupOK, now) IN
          IF gate.resp # Admitted THEN Abort("create", header, gate)
          ELSE \E name \in Opt(Names), fault \in CreateFaults, rollbackOK \in BOOLEAN :
                  Through(CreatePeerHandler(name, now, fault, rollbackOK),
                          Request("create", <<>>, name, {}), header, gate)

\* DELETE /api/v1/peers/:ip
ServeDeletePeer ==
    /\ Idle
    /\ \E header \in ClientHeaders, lookupOK \in BOOLEAN :
          LET gate == AuthMiddleware(header, lookupOK, now) IN
          IF gate.resp # Admitted THEN Abort("delete", header, gate)
          ELSE \E ip \in ReqIPs, fault \in DeleteFaults :
                  Through(DeletePeerHandler(ip, fault), Request("delete", ip, {}, {}),
                          header, gate)

\* PUT /api/v1/settings carrying logging_enabled
ServeUpdateSettings ==
    /\ Idle
    /\ \E header \in ClientHeaders, lookupOK \in BOOLEAN :
          LET gate == AuthMiddleware(header, lookupOK, now) IN
          IF gate.resp # Admitted THEN Abort("settings", header, gate)
          ELSE \E loggingEnabled, writeOK \in BOOLEAN :
                  /\ settings' = IF writeOK
                                 THEN SetSetting(settings, "logging_enabled",
                                                 IF loggingEnabled THEN "true" ELSE "false")
                                 ELSE settings
                  /\ req' = Gated(Request("settings", <<>>, {}, {loggingEnabled}), header, gate)
                  /\ resp' = IF writeOK THEN Reply(200, "", <<>>)
                             ELSE Reply(500, "Failed to update logging setting", <<>>)
                  /\ calls' = gate.calls \o <<Call("db set setting", writeOK)>>
                  /\ UNCHANGED <<peers, nextID, nextKey, logs, nextLogID, live, saved, now,
                                 alloc, procs, authVars>>

\* GET /api/v1/tailscale/status, for the handlers that read and change nothing
\* here; the route on which every kind of header is tried
ServeStatus ==
    /\ Idle
    /\ \E header \in Headers, lookupOK \in BOOLEAN :
          LET gate == AuthMiddleware(header, lookupOK, now) IN
          IF gate.resp # Admitted THEN Abort("status", header, gate)
          ELSE Through([Unchanged EXCEPT !.resp = Reply(200, "", <<>>)],
                       Request("status", <<>>, {}, {}), header, gate)

\* GET /health and GET /api/health, whatever header the request carries
Health ==
    /\ Idle
    /\ \E header \in {<<>>, <<"Bearer", Text(1, APITokenLen)>>} :
          Apply([Unchanged EXCEPT !.resp = Reply(200, "", <<>>)],
                [op |-> "health", ip |-> <<>>, name |-> {}, enabled |-> {},
                 header |-> header, admitted |-> FALSE])

NextGate ==
    \/ Login
    \/ Refresh
    \/ Logout
    \/ ServeCreatePeer
    \/ ServeDeletePeer
    \/ ServeUpdateSettings
    \/ ServeStatus
    \/ Health
    \/ Respond

SpecGate == Init /\ [][NextGate]_vars

---------------------------------------------------------------------------
(* The login route behind the rate limiter.  A limiter of x/time/rate holds a  *)
(* fraction of a token; here a token is RateLimitWindowSeconds units, so that  *)
(* one second refills RateLimitRequests units.                                 *)

RateLimitRequests == 2          \* cfg.Security.RateLimitRequests
RateLimitWindowSeconds == 4     \* cfg.Security.RateLimitWindowSeconds
VisitorMaxIdle == 180           \* 3*time.Minute

\* rate.NewLimiter(rl.rate, rl.burst): a full bucket
NewLimiter(t) == [tokens |-> RateLimitRequests * RateLimitWindowSeconds, last |-> t]

\* the tokens of the bucket at time t: refilled at rl.rate, never above rl.burst
Advance(lim, t) ==
    Min({RateLimitRequests * RateLimitWindowSeconds,
         lim.tokens + (t - lim.last) * RateLimitRequests})

Allow_Always(lim, t) == [ok |-> TRUE, lim |-> lim]

\* limiter.Allow(): one token is taken when there is one
Allow(lim, t) ==
    IF Advance(lim, t) >= RateLimitWindowSeconds
    THEN [ok |-> TRUE, lim |-> [tokens |-> Advance(lim, t) - RateLimitWindowSeconds, last |-> t]]
    ELSE [ok |-> FALSE, lim |-> lim]

\* RateLimiter.getVisitor: the map after the call; the limiter is vs'[ip].limiter
GetVisitor(vs, ip, t) ==
    IF ip \notin DOMAIN vs
    THEN [a \in DOMAIN vs \cup {ip} |->
             IF a = ip THEN [limiter |-> NewLimiter(t), lastSeen |-> t] ELSE vs[a]]
    ELSE [vs EXCEPT ![ip].lastSeen = t]

\* one round of RateLimiter.cleanupVisitors
CleanupVisitors(vs, t) ==
    [a \in {b \in DOMAIN vs : ~(t - vs[b].lastSeen > VisitorMaxIdle)} |-> vs[a]]

\* RateLimiter.Middleware: the map it leaves and its answer, Admitted for c.Next()
RateMiddleware(vs, ip, t) ==
    LET vs2 == GetVisitor(vs, ip, t)
        a == Allow(vs2[ip].limiter, t)
    IN  [visitors |-> [vs2 EXCEPT ![ip].limiter = a.lim],
         resp |-> IF a.ok THEN Admitted ELSE Reply(429, "Too many requests", <<>>)]

\* what the history keeps of one attempt: next is whether the middleware called c.Next()
Attempt(t, gate, o) ==
    [at |-> t, next |-> gate.resp = Admitted, status |-> o.resp.status, calls |-> o.calls]

\* POST /api/v1/auth/login as the router serves it: rateLimiter.Middleware(), then Login
LimitedLogin ==
    /\ Idle
    /\ nextToken <= MaxTokens
    /\ \E ip \in Sources, password \in Passwords :
          LET gate == RateMiddleware(visitors, ip, now)
              body == {[username |-> AdminUsername, password |-> password]}
              o == IF gate.resp # Admitted THEN [AuthUnchanged EXCEPT !.resp = gate.resp]
                   ELSE LoginHandler(body, "none", now)
          IN  /\ Len(attempts[ip]) < MaxAttempts
              /\ visitors' = gate.visitors
              /\ attempts' = [attempts EXCEPT ![ip] = Append(@, Attempt(now, gate, o))]
              /\ users' = o.users
              /\ refresh_tokens' = o.refresh_tokens
              /\ nextToken' = o.nextToken
              /\ calls' = o.calls
              /\ resp' = o.resp
              /\ req' = AuthRequest("login", AdminUsername, password, {}, <<>>)
    /\ UNCHANGED <<peers, nextID, nextKey, logs, nextLogID, settings, live, saved, now, alloc,
                   procs, accessSecret, rotated, config, mainVars, client>>

\* no request arrives for longer than the limiter keeps an idle visitor
Quiet ==
    /\ Idle
    /\ now <= Epoch + MaxTicks
    /\ now' = now + VisitorMaxIdle + 1
    /\ UNCHANGED <<peers, nextID, nextKey, logs, nextLogID, settings, live, saved, req,
                   resp, calls, alloc, procs, authVars>>

\* the ticker of cleanupVisitors fires
Cleanup ==
    /\ CleanupVisitors(visitors, now) # visitors
    /\ visitors' = CleanupVisitors(visitors, now)
    /\ UNCHANGED <<peers, nextID, nextKey, logs, nextLogID, settings, live, saved, now, req,
                   resp, calls, alloc, procs, users, refresh_tokens, accessSecret, nextToken,
                   rotated, attempts, config, mainVars, client>>

NextLimit ==
    \/ LimitedLogin
    \/ Tick
    \/ Quiet
    \/ Cleanup
    \/ Respond

SpecLimit == Init /\ [][NextLimit]_vars

---------------------------------------------------------------------------
(* ListPeers served by several goroutines at once, with logging enabled: the   *)
(* SELECT and the INSERT of AddConnectionLog are two statements, and another    *)
(* goroutine's statement can run between them.                                  *)

\* the row CreatePeer left for the first peer
FirstRow ==
    DBCreatePeer({}, 1, NewPeer("alice", GenerateKeyPair(1), HostIP(WGSubnet, FirstHost)),
                 Epoch, "none").peer

\* the service after one peer was created and logging was switched on
InitLog ==
    /\ peers = {FirstRow}
    /\ nextID = 2
    /\ nextKey = 2
    /\ logs = {}
    /\ nextLogID = 1
    /\ settings = SetSetting(<<>>, "logging_enabled", "true")
    /\ live = WgSetPeer(<<>>, FirstRow.public_key, FirstRow.assigned_ip)
    /\ saved = live
    /\ now = Epoch
    /\ req = NoRequest
    /\ resp = Reply(0, "", <<>>)
    /\ calls = <<>>
    /\ alloc = NoAlloc
    /\ procs = NoProcs /\ AuthStart

ListFrame ==
    UNCHANGED <<peers, nextID, nextKey, settings, live, saved, now, req, resp, calls, alloc,
                authVars>>

Listing(p) == procs[p].pc \in {"loop", "log"}

\* peers.go:96-112: GetAllPeers, GetPeerStats, GetSetting
ListStart(p) ==
    /\ procs[p].pc = "idle"
    /\ nextLogID + Cardinality(peers) * (1 + Cardinality({q \in Procs : Listing(q)}))
          <= MaxLogRows + 1
    /\ \E readOK, dumpOK, settingOK \in BOOLEAN :
       \E dump \in [DOMAIN live -> DumpLines(now)] :
       \E rows \in (IF readOK THEN GetAllPeers(peers) ELSE {<<>>}) :
          LET st == GetPeerStats(dump, dumpOK, now)
              loggingEnabled == GetSetting(settings, "logging_enabled", settingOK) = "true"
          IN  procs' = [procs EXCEPT ![p] =
                 IF ~readOK
                 THEN [IdleProc EXCEPT !.pc = "done",
                                       !.resp = ListPeersHandler({}, st, <<>>).resp]
                 ELSE [pc |-> "loop", rows |-> rows, st |-> st, logging |-> loggingEnabled,
                       i |-> 1, last |-> {}, rivals |-> {}, calls |-> st.calls,
                       resp |-> Reply(0, "", <<>>)]]
    /\ UNCHANGED <<logs, nextLogID>>
    /\ ListFrame

\* peers.go:116-141 for one row, up to the SELECT of AddConnectionLog
ListSelect(p) ==
    /\ procs[p].pc = "loop"
    /\ procs[p].i \in DOMAIN procs[p].rows
    /\ LET me == procs[p]
           peer == me.rows[me.i]
       IN  IF ShouldLog(peer, me.st, me.logging)
           THEN \E last \in LastEndpoints(logs, peer.id) \cup {{}} :
                   procs' = [procs EXCEPT ![p].pc = "log", ![p].last = last]
           ELSE procs' = [procs EXCEPT ![p].i = @ + 1]
    /\ UNCHANGED <<logs, nextLogID>>
    /\ ListFrame

\* the rest of AddConnectionLog: the comparison and the INSERT
ListInsert(p) ==
    /\ procs[p].pc = "log"
    /\ \E insertOK \in BOOLEAN :
          LET me == procs[p]
              peer == me.rows[me.i]
              o == AddConnectionLog(logs, nextLogID, peer.id,
                                    me.st.stats[peer.public_key].Endpoint, now, me.last, insertOK)
          IN  /\ logs' = o.logs
              /\ nextLogID' = o.nextLogID
              /\ procs' = [procs EXCEPT ![p].pc = "loop", ![p].i = @ + 1]
    /\ ListFrame

\* peers.go:146: the listing is answered
ListEnd(p) ==
    /\ procs[p].pc = "loop"
    /\ procs[p].i \notin DOMAIN procs[p].rows
    /\ procs' = Finish(p, procs[p].calls,
                       ListPeersHandler({procs[p].rows}, procs[p].st,
                                        [logs |-> logs, nextLogID |-> nextLogID]).resp)
    /\ UNCHANGED <<logs, nextLogID>>
    /\ ListFrame

NextLog ==
    \/ \E p \in Procs :
          \/ ListStart(p)
          \/ ListSelect(p)
          \/ ListInsert(p)
          \/ ListEnd(p)
          \/ RaceEnd(p)
    \/ Tick

SpecLog == InitLog /\ [][NextLog]_vars

---------------------------------------------------------------------------
(* SettingsHandler.UpdateSettings with all of its fields *)

SettingsUnchanged ==
    [settings |-> settings, config |-> config, users |-> users,
     refresh_tokens |-> refresh_tokens, nextToken |-> nextToken,
     resp |-> Reply(0, "", <<>>), calls |-> <<>>]

\* a failed write answered as if it had succeeded
WriteFailed_Success(o, cmd, error) ==
    [o EXCEPT !.calls = Append(@, Call(cmd, FALSE)), !.resp = Reply(200, "", <<>>)]

\* db.DB.SetSetting returned an error: the handler answers and returns
WriteFailed(o, cmd, error) ==
    [o EXCEPT !.calls = Append(@, Call(cmd, FALSE)), !.resp = Reply(500, error, <<>>)]

Written(o, cmd, key, value) ==
    [o EXCEPT !.settings = SetSetting(@, key, value), !.calls = Append(@, Call(cmd, TRUE))]

SettingsFaults == {"none", "dns", "allowed_ips", "logging"} \cup (PasswordFaults \ {"none"})

SettingsBody(dns, allowedIPs, loggingEnabled, adminPassword) ==
    [dns |-> dns, allowed_ips |-> allowedIPs, logging_enabled |-> loggingEnabled,
     admin_password |-> adminPassword]

\* body is nil when the JSON does not bind; each field of it is a pointer
UpdateSettingsHandler(body, fault, deleteOK) ==
    IF body = {}
    THEN [SettingsUnchanged EXCEPT !.resp = Reply(400, "Invalid request", <<>>)]
    ELSE
    LET r == Some(body)
        s1 == IF r.dns = {} THEN SettingsUnchanged
              ELSE IF fault = "dns"
              THEN WriteFailed(SettingsUnchanged, "db set dns", "Failed to update DNS")
              ELSE [Written(SettingsUnchanged, "db set dns", "dns", Some(r.dns))
                       EXCEPT !.config.dns = Some(r.dns)]
    IN
    IF s1.resp.status # 0 THEN s1
    ELSE
    LET s2 == IF r.allowed_ips = {} THEN s1
              ELSE IF fault = "allowed_ips"
              THEN WriteFailed(s1, "db set allowed_ips", "Failed to update AllowedIPs")
              ELSE [Written(s1, "db set allowed_ips", "allowed_ips", Some(r.allowed_ips))
                       EXCEPT !.config.allowed_ips = Some(r.allowed_ips)]
    IN
    IF s2.resp.status # 0 THEN s2
    ELSE
    LET s3 == IF r.logging_enabled = {} THEN s2
              ELSE IF fault = "logging"
              THEN WriteFailed(s2, "db set logging_enabled", "Failed to update logging setting")
              ELSE Written(s2, "db set logging_enabled", "logging_enabled",
                           IF Some(r.logging_enabled) THEN "true" ELSE "false")
    IN
    IF s3.resp.status # 0 THEN s3
    ELSE
    LET pw == PasswordHandler({[admin_password |-> r.admin_password]}, fault, deleteOK)
    IN  [s3 EXCEPT !.users = pw.users, !.refresh_tokens = pw.refresh_tokens,
                   !.calls = @ \o pw.calls,
                   !.resp = IF pw.resp.status = 200
                            THEN Reply(200, "", <<"Settings updated">>) ELSE pw.resp]

SettingsRequest(body) ==
    [op |-> "settings", ip |-> <<>>, name |-> {}, enabled |-> {}, body |-> body]

\* PUT /api/v1/settings
UpdateSettings ==
    /\ Idle
    /\ \E dns \in Opt(DNSValues), allowedIPs \in Opt(AllowedIPsValues) :
       \E loggingEnabled \in Opt(BOOLEAN), adminPassword \in Opt({"hunter2", ""}) :
       \E body \in {{}, {SettingsBody(dns, allowedIPs, loggingEnabled, adminPassword)}} :
       \E fault \in SettingsFaults, deleteOK \in BOOLEAN :
          LET o == UpdateSettingsHandler(body, fault, deleteOK)
          IN  /\ settings' = o.settings
              /\ config' = o.config
              /\ users' = o.users
              /\ refresh_tokens' = o.refresh_tokens
              /\ nextToken' = o.nextToken
              /\ calls' = o.calls
              /\ resp' = o.resp
              /\ req' = SettingsRequest(body)
    /\ UNCHANGED <<peers, nextID, nextKey, logs, nextLogID, live, saved, now, alloc, procs,
                   accessSecret, rotated, limitVars, mainVars, client>>

NextSettings ==
    \/ UpdateSettings
    \/ Restart
    \/ Respond

SpecSettings == Init /\ [][NextSettings]_vars

---------------------------------------------------------------------------
(* CreatePeer, UpdatePeer and DeletePeer served by several goroutines at once, *)
(* in the same units as above: one SQL statement, one wg or wg-quick command.  *)
(* oks is the set of outcomes the environment may give a call.                 *)

MixFrame == UNCHANGED <<nextID, nextKey, nextLogID, settings, now, req, resp, calls, alloc,
                        authVars>>

\* a goroutine serving UpdatePeer or DeletePeer for address ip
MixProc(op, pc, ip, enabled, peer) ==
    [op |-> op, pc |-> pc, ip |-> ip, enabled |-> enabled, peer |-> peer, name |-> "",
     keys |-> <<>>, calls |-> <<>>, rivals |-> {}, resp |-> Reply(0, "", <<>>)]

Op(p) == IF "op" \in DOMAIN procs[p] THEN procs[p].op ELSE "create"

\* the addresses requests name: those of the rows, and the first host
MixIPs == AssignedIPs(peers) \cup {HostIP(WGSubnet, FirstHost)}

\* peers.go:150-175: the address is valid, the body binds with enabled set, GetPeerByIP
UpdGet(p, oks) ==
    /\ procs[p].pc = "idle"
    /\ \E ip \in MixIPs, enabled \in BOOLEAN, readOK \in oks :
          LET got == GetPeerByIP(peers, ip, readOK)
              me == MixProc("update", "db", ip, {enabled}, got.peer)
          IN  procs' = [procs EXCEPT ![p] =
                 IF got.err # ""
                 THEN [me EXCEPT !.pc = "done", !.resp = Reply(404, "Peer not found", <<>>)]
                 ELSE IF NeedsAdd({enabled}, got.peer) \/ NeedsRemove({enabled}, got.peer)
                 THEN [me EXCEPT !.pc = "wgset"]
                 ELSE me]
    /\ UNCHANGED <<peers, logs, live, saved>>
    /\ MixFrame

\* the wg set of AddPeer (wgmanager.go:116-137) or of RemovePeer (wgmanager.go:148-165)
UpdSet(p, oks) ==
    /\ procs[p].pc = "wgset" /\ Op(p) = "update"
    /\ \E ok \in oks :
          LET me == procs[p]
              adds == NeedsAdd(me.enabled, me.peer)
              cmd == IF adds THEN "wg set peer" ELSE "wg set remove"
          IN  /\ live' = IF ~ok THEN live
                         ELSE IF adds THEN WgSetPeer(live, me.peer.public_key, me.peer.assigned_ip)
                         ELSE WgRemovePeer(live, me.peer.public_key)
              /\ procs' = IF ok
                          THEN [procs EXCEPT ![p].pc = "save", ![p].calls = @ \o <<Call(cmd, TRUE)>>]
                          ELSE Finish(p, me.calls \o <<Call(cmd, FALSE)>>,
                                      Reply(500, IF adds THEN "Failed to enable peer"
                                                 ELSE "Failed to disable peer", <<>>))
    /\ UNCHANGED <<peers, logs, saved>>
    /\ MixFrame

\* the SaveConfig of AddPeer or RemovePeer
UpdSave(p, oks) ==
    /\ procs[p].pc = "save" /\ Op(p) = "update"
    /\ \E ok \in oks :
          LET me == procs[p]
              s == SaveConfig(live, saved, ok)
          IN  /\ saved' = s.saved
              /\ procs' = IF ok
                          THEN [procs EXCEPT ![p].pc = "db", ![p].calls = @ \o s.calls]
                          ELSE Finish(p, me.calls \o s.calls,
                                      Reply(500, IF NeedsAdd(me.enabled, me.peer)
                                                 THEN "Failed to enable peer"
                                                 ELSE "Failed to disable peer", <<>>))
    /\ UNCHANGED <<peers, logs, live>>
    /\ MixFrame

\* peers.go:190-206: db.DB.UpdatePeer; its SELECT changes nothing and is taken
\* together with the UPDATE before it
UpdDB(p, oks) ==
    /\ procs[p].pc = "db" /\ Op(p) = "update"
    /\ \E fault \in {"none"} \cup (IF FALSE \in oks THEN {"enabled", "select"} ELSE {}) :
          LET me == procs[p]
              upd == DBUpdatePeer(peers, me.ip, {}, me.enabled, now, fault)
          IN  /\ peers' = upd.peers
              /\ procs' = Finish(p, me.calls \o upd.calls,
                                 IF upd.err # "" THEN Reply(500, "Failed to update peer", <<>>)
                                 ELSE Reply(200, "", <<PeerResponse(upd.peer)>>))
    /\ UNCHANGED <<logs, live, saved>>
    /\ MixFrame

\* peers.go:210-226: the address is valid, GetPeerByIP
DelGet(p, oks) ==
    /\ procs[p].pc = "idle"
    /\ \E ip \in MixIPs, readOK \in oks :
          LET got == GetPeerByIP(peers, ip, readOK)
              me == MixProc("delete", "wgset", ip, {}, got.peer)
          IN  procs' = [procs EXCEPT ![p] =
                 IF got.err # ""
                 THEN [me EXCEPT !.pc = "done", !.resp = Reply(404, "Peer not found", <<>>)]
                 ELSE me]
    /\ UNCHANGED <<peers, logs, live, saved>>
    /\ MixFrame

\* the wg set of RemovePeer
DelSet(p, oks) ==
    /\ procs[p].pc = "wgset" /\ Op(p) = "delete"
    /\ \E ok \in oks :
          /\ live' = IF ok THEN WgRemovePeer(live, procs[p].peer.public_key) ELSE live
          /\ procs' = IF ok
                      THEN [procs EXCEPT ![p].pc = "save",
                                         ![p].calls = @ \o <<Call("wg set remove", TRUE)>>]
                      ELSE Finish(p, procs[p].calls \o <<Call("wg set remove", FALSE)>>,
                                  Reply(500, "Failed to remove peer from WireGuard", <<>>))
    /\ UNCHANGED <<peers, logs, saved>>
    /\ MixFrame

\* the SaveConfig of RemovePeer
DelSave(p, oks) ==
    /\ procs[p].pc = "save" /\ Op(p) = "delete"
    /\ \E ok \in oks :
          LET s == SaveConfig(live, saved, ok)
          IN  /\ saved' = s.saved
              /\ procs' = IF ok
                          THEN [procs EXCEPT ![p].pc = "db", ![p].calls = @ \o s.calls]
                          ELSE Finish(p, procs[p].calls \o s.calls,
                                      Reply(500, "Failed to remove peer from WireGuard", <<>>))
    /\ UNCHANGED <<peers, logs, live>>
    /\ MixFrame

\* peers.go:246-254: db.DB.DeletePeer
DelDB(p, oks) ==
    /\ procs[p].pc = "db" /\ Op(p) = "delete"
    /\ \E ok \in oks :
          LET del == DeleteRow(peers, logs, procs[p].ip, ok)
          IN  /\ peers' = del.peers
              /\ logs' = del.logs
              /\ procs' = Finish(p, procs[p].calls \o del.calls,
                                 IF del.err # ""
                                 THEN Reply(500, "Failed to delete peer from database", <<>>)
                                 ELSE Reply(200, "", <<>>))
    /\ UNCHANGED <<live, saved>>
    /\ MixFrame

Creating(p) == Op(p) = "create"

\* creates and deletes with every outcome of their calls, updates whose calls succeed
NextMix ==
    \E p \in Procs :
       \/ RaceScan(p)
       \/ Creating(p) /\ RaceInsert(p)
       \/ Creating(p) /\ RaceSet(p)
       \/ Creating(p) /\ RaceSave(p)
       \/ Creating(p) /\ RaceRollback(p)
       \/ UpdGet(p, {TRUE})
       \/ UpdSet(p, {TRUE})
       \/ UpdSave(p, {TRUE})
       \/ UpdDB(p, {TRUE})
       \/ DelGet(p, BOOLEAN)
       \/ DelSet(p, BOOLEAN)
       \/ DelSave(p, BOOLEAN)
       \/ DelDB(p, BOOLEAN)
       \/ RaceEnd(p)

SpecMix == Init /\ [][NextMix]_vars

\* two UpdatePeer requests at a time on the one peer, every call succeeding
NextToggle ==
    \E p \in Procs :
       \/ UpdGet(p, {TRUE})
       \/ UpdSet(p, {TRUE})
       \/ UpdSave(p, {TRUE})
       \/ UpdDB(p, {TRUE})
       \/ RaceEnd(p)

SpecToggle == InitLog /\ [][NextToggle]_vars

---------------------------------------------------------------------------
(* AuthHandler.Refresh served by several goroutines at once, beside Logout and  *)
(* the hourly purge: one SQL statement per step.                                *)

\* the row Login left for the admin user
FirstToken == GenerateRefreshToken(1)

\* the service after the admin user logged in once
InitRotate ==
    /\ peers = {} /\ nextID = 1 /\ nextKey = 1
    /\ logs = {} /\ nextLogID = 1
    /\ settings = <<>>
    /\ live = <<>> /\ saved = <<>>
    /\ now = Epoch
    /\ req = NoRequest
    /\ resp = Reply(0, "", <<>>)
    /\ calls = <<>>
    /\ alloc = NoAlloc
    /\ procs = NoProcs
    /\ users = UpdateUserAPIToken(EnsureAdminUser({}), 1, GenerateAPIToken(ConfigPassword, 1))
    /\ refresh_tokens = SaveRefreshToken({}, 1, FirstToken, GetRefreshTokenExpiry(Epoch))
    /\ accessSecret = 1
    /\ nextToken = 2
    /\ rotated = {}
    /\ visitors = <<>>
    /\ attempts = [ip \in Sources |-> <<>>]
    /\ config = FileConfig
    /\ MainStart
    /\ client = NoClient

RotateFrame ==
    UNCHANGED <<peers, nextID, nextKey, logs, nextLogID, settings, live, saved, now, req, resp,
                calls, alloc, accessSecret, limitVars, config, mainVars, client>>

\* a goroutine serving Refresh or Logout with the cookie token
RotProc(op, pc, token) ==
    [op |-> op, pc |-> pc, token |-> token, row |-> <<>>, user |-> <<>>, access |-> <<>>,
     new |-> <<>>, calls |-> <<>>, rivals |-> {}, resp |-> Reply(0, "", <<>>)]

Rotating(p) == procs[p].pc \in {"user", "delete", "insert"}

\* the cookies clients hold: the tokens issued so far, and one never issued
Cookies == {GenerateRefreshToken(n) : n \in 0..(nextToken - 1)}

\* part_008:111-138: the cookie is read, GetRefreshToken, the expiry check
RotGetOf(p, cookies, oks) ==
    /\ procs[p].pc = "idle"
    /\ nextToken + Cardinality({q \in Procs : Rotating(q)}) <= MaxTokens
    /\ \E cookie \in cookies, readOK \in oks :
          LET found == IF cookie = {} \/ ~readOK THEN {}
                       ELSE GetRefreshToken(refresh_tokens, Some(cookie))
              me == RotProc("refresh", "user", cookie)
          IN  procs' = [procs EXCEPT ![p] =
                 IF cookie = {}
                 THEN [me EXCEPT !.pc = "done",
                                 !.resp = Reply(401, "Refresh token not found", <<>>)]
                 ELSE IF found = {}
                 THEN [me EXCEPT !.pc = "done",
                                 !.resp = Reply(401, "Invalid refresh token", <<>>)]
                 ELSE IF now > Some(found).expires_at
                 THEN [me EXCEPT !.pc = "expired", !.row = Some(found)]
                 ELSE [me EXCEPT !.row = Some(found)]]
    /\ UNCHANGED <<users, refresh_tokens, nextToken, rotated>>
    /\ RotateFrame

\* Refresh for any cookie a client may hold, the SELECT failing or not
RotGet(p) == RotGetOf(p, Opt(Cookies), BOOLEAN)

\* part_008:132-137: the expired token's row is deleted, the error not looked at
RotExpired(p) ==
    /\ procs[p].pc = "expired"
    /\ \E deleteOK \in BOOLEAN :
          /\ refresh_tokens' = RotateOld(refresh_tokens, Some(procs[p].token), deleteOK)
          /\ procs' = Finish(p, <<Call("db delete refresh_token", deleteOK)>>,
                             Reply(401, "Refresh token expired", <<>>))
    /\ UNCHANGED <<users, nextToken, rotated>>
    /\ RotateFrame

\* part_008:141-156: GetUserByID, GenerateAccessToken
RotUserOf(p, faults) ==
    /\ procs[p].pc = "user"
    /\ \E fault \in faults :
          LET owner == IF fault = "user" THEN {} ELSE GetUserByID(users, procs[p].row.user_id)
          IN  procs' =
                 IF owner = {}
                 THEN Finish(p, <<>>, Reply(401, "User not found", <<>>))
                 ELSE IF fault = "sign"
                 THEN Finish(p, <<>>, Reply(500, "Failed to generate access token", <<>>))
                 ELSE [procs EXCEPT ![p].pc = "delete",
                          ![p].access = GenerateAccessToken(Some(owner).id, Some(owner).username,
                                                            accessSecret, now),
                          ![p].user = Some(owner)]
    /\ UNCHANGED <<users, refresh_tokens, nextToken, rotated>>
    /\ RotateFrame

RotUser(p) == RotUserOf(p, {"none", "user", "sign"})

\* part_008:158-169: DeleteRefreshToken, the error not looked at, GenerateRefreshToken
RotDeleteOf(p, oks) ==
    /\ procs[p].pc = "delete"
    /\ \E deleteOK, randOK \in oks :
          LET del == <<Call("db delete refresh_token", deleteOK)>> IN
          /\ refresh_tokens' = RotateOld(refresh_tokens, Some(procs[p].token), deleteOK)
          /\ nextToken' = IF randOK THEN nextToken + 1 ELSE nextToken
          /\ procs' = IF randOK
                      THEN [procs EXCEPT ![p].pc = "insert", ![p].calls = del,
                                         ![p].new = GenerateRefreshToken(nextToken)]
                      ELSE Finish(p, del, Reply(500, "Failed to generate refresh token", <<>>))
    /\ UNCHANGED <<users, rotated>>
    /\ RotateFrame

RotDelete(p) == RotDeleteOf(p, BOOLEAN)

\* part_008:171-196: SaveRefreshToken, the cookie, the response
RotInsertOf(p, oks) ==
    /\ procs[p].pc = "insert"
    /\ \E saveOK \in oks :
          LET me == procs[p]
              ins == me.calls \o <<Call("db insert refresh_token", saveOK)>>
          IN  /\ refresh_tokens' =
                    IF saveOK THEN SaveRefreshToken(refresh_tokens, me.user.id, me.new,
                                                    GetRefreshTokenExpiry(now))
                    ELSE refresh_tokens
              /\ rotated' = IF saveOK THEN rotated \cup me.token ELSE rotated
              /\ procs' = IF saveOK
                          THEN Finish(p, ins, Reply(200, "",
                                   <<LoginResponse(me.access, me.user.api_token, me.new)>>))
                          ELSE Finish(p, ins, Reply(500, "Failed to save refresh token", <<>>))
    /\ UNCHANGED <<users, nextToken>>
    /\ RotateFrame

RotInsert(p) == RotInsertOf(p, BOOLEAN)

\* AuthHandler.Logout, whose one statement is DeleteRefreshToken
RotLogout(p) ==
    /\ procs[p].pc = "idle"
    /\ \E cookie \in Opt(Cookies), deleteOK \in BOOLEAN :
          LET o == LogoutHandler(cookie, deleteOK) IN
          /\ refresh_tokens' = o.refresh_tokens
          /\ procs' = [procs EXCEPT ![p] =
                          [RotProc("logout", "done", cookie) EXCEPT !.calls = o.calls,
                                                                     !.resp = o.resp]]
    /\ UNCHANGED <<users, nextToken, rotated>>
    /\ RotateFrame

\* the goroutine ends
RotEnd(p) ==
    /\ procs[p].pc = "done"
    /\ procs' = [procs EXCEPT ![p] = IdleProc]
    /\ UNCHANGED <<users, refresh_tokens, nextToken, rotated>>
    /\ RotateFrame

\* AuthHandler.Login, run without another goroutine's statement in between; its
\* one statement on refresh_tokens is the INSERT
RotLogin(p) ==
    /\ procs[p].pc = "idle"
    /\ nextToken + Cardinality({q \in Procs : Rotating(q)}) <= MaxTokens
    /\ \E password \in Passwords :
          LET o == LoginHandler({[username |-> AdminUsername, password |-> password]},
                                "none", now)
          IN  /\ users' = o.users
              /\ refresh_tokens' = o.refresh_tokens
              /\ nextToken' = o.nextToken
              /\ procs' = [procs EXCEPT ![p] =
                              [RotProc("login", "done", {}) EXCEPT !.calls = o.calls,
                                                                   !.resp = o.resp]]
    /\ UNCHANGED rotated
    /\ RotateFrame

\* the admin_password part of UpdateSettings, run without another goroutine's
\* statement in between; its one statement on refresh_tokens is the DELETE
RotPassword(p) ==
    /\ procs[p].pc = "idle"
    /\ \E adminPassword \in Passwords \ {ConfigPassword}, deleteOK \in BOOLEAN :
          LET o == PasswordHandler({[admin_password |-> {adminPassword}]}, "none", deleteOK)
          IN  /\ users' = o.users
              /\ refresh_tokens' = o.refresh_tokens
              /\ procs' = [procs EXCEPT ![p] =
                              [RotProc("password", "done", {}) EXCEPT !.calls = o.calls,
                                                                      !.resp = o.resp]]
    /\ UNCHANGED <<nextToken, rotated>>
    /\ RotateFrame

NextRotate ==
    \/ \E p \in Procs :
          \/ RotGet(p)
          \/ RotExpired(p)
          \/ RotUser(p)
          \/ RotDelete(p)
          \/ RotInsert(p)
          \/ RotLogout(p)
          \/ RotLogin(p)
          \/ RotPassword(p)
          \/ RotEnd(p)
    \/ CleanExpired
    \/ Tick

SpecRotate == InitRotate /\ [][NextRotate]_vars

---------------------------------------------------------------------------
(* The web client (web/src/api/client.ts) of one browser, two of whose         *)
(* requests run at once against the service; no statement of the service       *)
(* fails and the clock stands still, so the refresh cookie never expires.      *)

\* the access token Login answered with at Epoch
FirstAccess == GenerateAccessToken(1, AdminUsername, 1, Epoch)

\* the panel is open in a browser that logged in AccessExpiry clock steps ago:
\* the access token has run out, the refresh cookie has not
InitClient ==
    /\ peers = {} /\ nextID = 1 /\ nextKey = 1
    /\ logs = {} /\ nextLogID = 1
    /\ settings = <<>>
    /\ live = <<>> /\ saved = <<>>
    /\ now = Epoch + AccessExpiry
    /\ req = NoRequest
    /\ resp = Reply(0, "", <<>>)
    /\ calls = <<>>
    /\ alloc = NoAlloc
    /\ procs = NoProcs
    /\ users = UpdateUserAPIToken(EnsureAdminUser({}), 1, GenerateAPIToken(ConfigPassword, 1))
    /\ refresh_tokens = SaveRefreshToken({}, 1, FirstToken, GetRefreshTokenExpiry(Epoch))
    /\ accessSecret = 1
    /\ nextToken = 2
    /\ rotated = {}
    /\ visitors = <<>>
    /\ attempts = [ip \in Sources |-> <<>>]
    /\ config = FileConfig
    /\ MainStart
    /\ client = [accessToken |-> {FirstAccess}, cookie |-> {FirstToken}, page |-> "app",
                 task |-> [i \in Procs |-> "idle"]]

ClientFrame ==
    UNCHANGED <<peers, nextID, nextKey, logs, nextLogID, settings, live, saved, now, req, resp,
                calls, alloc, users, refresh_tokens, accessSecret, nextToken, rotated, limitVars,
                config, mainVars>>

\* client.ts:93-106 and 112-117: the Authorization header of a fetch, and what
\* AuthMiddleware answers it
Fetch(token) ==
    AuthMiddleware(IF token = {} THEN <<>> ELSE <<"Bearer", Some(token)>>, TRUE, now).resp

\* client.ts:98-108: request() sends its fetch; a 401 takes it into refresh()
CliFetch(i) ==
    /\ client.page = "app"
    /\ client.task[i] = "idle"
    /\ client' = [client EXCEPT !.task[i] =
                     IF Fetch(client.accessToken) = Admitted THEN "ok"
                     ELSE IF Fetch(client.accessToken).status = 401 THEN "refresh"
                     ELSE "failed"]
    /\ UNCHANGED procs
    /\ ClientFrame

\* client.ts:153-158: refresh() posts to /auth/refresh with the cookie the
\* browser holds at that moment; the goroutine serving it reads the cookie's row
CliRefresh(i) ==
    /\ client.page = "app"
    /\ client.task[i] = "refresh"
    /\ RotGetOf(i, {client.cookie}, {TRUE})

\* client.ts:159-166 and 111, 123-126: the answer of /auth/refresh arrives. 200:
\* the browser stores the new cookie, setToken, and the request goes on to its
\* retry; anything else: clearToken and the browser is sent to /login
CliRefreshed(i) ==
    /\ client.page = "app"
    /\ client.task[i] = "refresh"
    /\ procs[i].pc = "done"
    /\ client' =
          IF procs[i].resp.status = 200
          THEN [client EXCEPT !.accessToken = {procs[i].resp.body[1].access_token},
                              !.cookie = {procs[i].resp.body[1].refresh_token},
                              !.task[i] = "retry"]
          ELSE [client EXCEPT !.accessToken = {}, !.page = "login", !.task[i] = "expired"]
    /\ procs' = [procs EXCEPT ![i] = IdleProc]
    /\ ClientFrame

\* client.ts:112-122: the retry, with the access token the client holds now
CliRetry(i) ==
    /\ client.page = "app"
    /\ client.task[i] = "retry"
    /\ client' = [client EXCEPT !.task[i] =
                     IF Fetch(client.accessToken) = Admitted THEN "ok" ELSE "failed"]
    /\ UNCHANGED procs
    /\ ClientFrame

NextClient ==
    \E i \in Procs :
       \/ CliFetch(i)
       \/ CliRefresh(i)
       \/ RotUserOf(i, {"none"})
       \/ RotDeleteOf(i, {TRUE})
       \/ RotInsertOf(i, {TRUE})
       \/ CliRefreshed(i)
       \/ CliRetry(i)

SpecClient == InitClient /\ [][NextClient]_vars

---------------------------------------------------------------------------
(* main: the hourly maintenance goroutine and the shutdown on a signal *)

ShutFrame ==
    UNCHANGED <<peers, nextID, nextKey, logs, nextLogID, settings, live, saved, now, req, resp,
                calls, alloc, procs, users, accessSecret, nextToken, rotated, limitVars, config,
                client>>

\* the maintenance goroutine is inside a run
InRun == maintPC \in {"purge", "optimize", "stats"}

\* what the end of the process makes of the goroutine
AtExit(pc) == IF pc = "returned" THEN "returned" ELSE "killed"

\* the runtime sends on ticker.C, whose buffer holds one tick
TickerFires ==
    /\ mainPC # "exited"
    /\ maintPC \notin {"returned", "killed"}
    /\ ~tickerC
    /\ tickerC' = TRUE
    /\ UNCHANGED <<refresh_tokens, ctxDone, dbOpen, mainPC, maintPC>>
    /\ ShutFrame

\* part_003:173-177: select between ctx.Done() and ticker.C; when both can
\* proceed the runtime picks one of them
MaintSelect ==
    /\ maintPC = "select"
    /\ \/ ctxDone /\ maintPC' = "returned" /\ tickerC' = tickerC
       \/ tickerC /\ maintPC' = "purge" /\ tickerC' = FALSE
    /\ UNCHANGED <<refresh_tokens, ctxDone, dbOpen, mainPC>>
    /\ ShutFrame

\* part_003:178-183: db.DB.CleanExpiredTokens, its error logged
MaintPurge ==
    /\ maintPC = "purge"
    /\ \E ok \in BOOLEAN :
          refresh_tokens' = IF dbOpen /\ ok THEN CleanExpiredTokens(refresh_tokens, now)
                            ELSE refresh_tokens
    /\ maintPC' = "optimize"
    /\ UNCHANGED <<ctxDone, tickerC, dbOpen, mainPC>>
    /\ ShutFrame

\* part_003:185-190: db.DB.Optimize, its error logged
MaintOptimize ==
    /\ maintPC = "optimize"
    /\ maintPC' = "stats"
    /\ UNCHANGED <<refresh_tokens, ctxDone, tickerC, dbOpen, mainPC>>
    /\ ShutFrame

\* part_003:192-200: the garbage collection and the memory statistics
MaintStats ==
    /\ maintPC = "stats"
    /\ maintPC' = "select"
    /\ UNCHANGED <<refresh_tokens, ctxDone, tickerC, dbOpen, mainPC>>
    /\ ShutFrame

\* part_003:223-233: the signal arrives, cancel(), rateLimiter.Stop()
MainSignal ==
    /\ mainPC = "serving"
    /\ Idle
    /\ ctxDone' = TRUE
    /\ mainPC' = "shutdown"
    /\ UNCHANGED <<refresh_tokens, tickerC, dbOpen, maintPC>>
    /\ ShutFrame

\* part_003:235-241: srv.Shutdown; on its error log.Fatalf ends the process at once
MainShutdown ==
    /\ mainPC = "shutdown"
    /\ \E ok \in BOOLEAN :
          /\ mainPC' = IF ok THEN "return" ELSE "exited"
          /\ maintPC' = IF ok THEN maintPC ELSE AtExit(maintPC)
    /\ UNCHANGED <<refresh_tokens, ctxDone, tickerC, dbOpen>>
    /\ ShutFrame

\* main returns: the deferred database.Close() of part_003:42 runs
MainClose ==
    /\ mainPC = "return"
    /\ dbOpen' = FALSE
    /\ mainPC' = "closed"
    /\ UNCHANGED <<refresh_tokens, ctxDone, tickerC, maintPC>>
    /\ ShutFrame

\* the process ends with main; goroutines that have not returned end with it
MainExit ==
    /\ mainPC = "closed"
    /\ mainPC' = "exited"
    /\ maintPC' = AtExit(maintPC)
    /\ UNCHANGED <<refresh_tokens, ctxDone, tickerC, dbOpen>>
    /\ ShutFrame

\* the server answers requests until main has it shut down
Serving == mainPC = "serving"

NextShutdown ==
    \/ TickerFires
    \/ MaintSelect
    \/ MaintPurge
    \/ MaintOptimize
    \/ MaintStats
    \/ MainSignal
    \/ MainShutdown
    \/ MainClose
    \/ MainExit
    \/ Serving /\ Login
    \/ Serving /\ Respond
    \/ Serving /\ Tick

SpecShutdown == Init /\ [][NextShutdown]_vars

---------------------------------------------------------------------------
(* Validation: AddPeer and RemovePeer called with any key and address, and the  *)
(* routes that take the address from the path                                   *)

\* keys of 32 bytes and of other lengths
AnyKeys ==
    {GenerateKeyPair(k).publicKey : k \in 1..MaxKeys}
    \cup {[kind |-> "public", n |-> 1, len |-> l] : l \in {0, WGKeyLen - 1, WGKeyLen + 1}}

\* addresses of the subnet, and strings that are not addresses: an octet above
\* 255, a part of four digits, three parts, five parts
AnyIPs ==
    ReqIPs \cup {<<10, 8, 0, MaxOctet + 1>>, <<10, 8, 0, MaxPart + 1>>, <<10, 8, 0>>,
                 <<10, 8, 0, 2, 1>>}

WgRequest(op, ip, key) == [op |-> op, ip |-> ip, name |-> {}, enabled |-> {}, key |-> key]

\* the outcome of a wgmanager call as the state it leaves
WgOutcome(wg) ==
    [Unchanged EXCEPT !.live = wg.live, !.saved = wg.saved, !.calls = wg.calls,
                      !.resp = Reply(IF wg.err = "" THEN 200 ELSE 500, wg.err, <<>>)]

\* WGManager.AddPeer called on its own
CallAddPeer ==
    /\ Idle
    /\ \E key \in AnyKeys, ip \in AnyIPs, fault \in {"none", "set"} :
          Apply(WgOutcome(AddPeer(live, saved, key, ip, fault)), WgRequest("AddPeer", ip, key))

\* WGManager.RemovePeer called on its own
CallRemovePeer ==
    /\ Idle
    /\ \E key \in AnyKeys, fault \in {"none", "set"} :
          Apply(WgOutcome(RemovePeer(live, saved, key, fault)),
                WgRequest("RemovePeer", <<>>, key))

\* WGManager.GenerateClientConfig: the fields the template is executed with
GenerateClientConfig(cfg, peer) ==
    [PrivateKey |-> peer.private_key, Address |-> peer.assigned_ip, DNS |-> cfg.dns,
     AllowedIPs |-> cfg.allowed_ips]

\* PeerHandler.GetPeerConfig
GetPeerConfigHandler(ip, fault) ==
    IF ~ValidateIP(ip)
    THEN [Unchanged EXCEPT !.resp = Reply(400, "Invalid IP address format", <<>>)]
    ELSE
    LET got == GetPeerByIP(peers, ip, fault # "get") IN
    IF got.err # ""
    THEN [Unchanged EXCEPT !.resp = Reply(404, "Peer not found", <<>>)]
    ELSE IF fault = "template"
    THEN [Unchanged EXCEPT !.resp = Reply(500, "Failed to generate configuration", <<>>)]
    ELSE [Unchanged EXCEPT !.resp = Reply(200, "", <<GenerateClientConfig(config, got.peer)>>)]

\* GET /api/v1/peers/:ip/config
GetPeerConfig ==
    /\ Idle
    /\ \E ip \in AnyIPs, fault \in {"none", "get", "template"} :
          Apply(GetPeerConfigHandler(ip, fault), Request("config", ip, {}, {}))

\* PATCH /api/v1/peers/:ip with any path parameter
UpdateAny ==
    /\ Idle
    /\ \E ip \in AnyIPs, bindOK \in BOOLEAN, enabled \in Opt(BOOLEAN) :
       \E fault \in {"none", "get"} :
          Apply(UpdatePeerHandler(ip, IF bindOK THEN {[name |-> {}, enabled |-> enabled]}
                                      ELSE {}, now, fault),
                Request("update", ip, {}, enabled))

\* DELETE /api/v1/peers/:ip with any path parameter
DeleteAny ==
    /\ Idle
    /\ \E ip \in AnyIPs, fault \in {"none", "get"} :
          Apply(DeletePeerHandler(ip, fault), Request("delete", ip, {}, {}))

NextValidate ==
    \/ CreatePeer
    \/ CallAddPeer
    \/ CallRemovePeer
    \/ GetPeerConfig
    \/ UpdateAny
    \/ DeleteAny
    \/ Respond

SpecValidate == Init /\ [][NextValidate]_vars

---------------------------------------------------------------------------
(* The DNS and AllowedIPs settings as reported and as used                      *)

\* models.SettingsResponse
SettingsResponse(dns, allowedIPs, loggingEnabled, apiToken) ==
    [dns |-> dns, allowed_ips |-> allowedIPs, logging_enabled |-> loggingEnabled,
     api_token |-> apiToken]

\* SettingsHandler.GetSettings: a stored value that is not empty goes before the
\* value of the running configuration
GetSettingsHandler(readOK, userOK) ==
    IF ~readOK
    THEN [Unchanged EXCEPT !.resp = Reply(500, "Failed to get settings", <<>>)]
    ELSE
    LET dns == IF "dns" \in DOMAIN settings /\ settings["dns"] # ""
               THEN settings["dns"] ELSE config.dns
        allowedIPs == IF "allowed_ips" \in DOMAIN settings /\ settings["allowed_ips"] # ""
                      THEN settings["allowed_ips"] ELSE config.allowed_ips
        loggingEnabled == "logging_enabled" \in DOMAIN settings
                          /\ settings["logging_enabled"] = "true"
        found == IF userOK THEN GetUserByUsername(users, AdminUsername) ELSE {}
        apiToken == IF found = {} THEN EmptyString ELSE Some(found).api_token
    IN  [Unchanged EXCEPT
            !.resp = Reply(200, "", <<SettingsResponse(dns, allowedIPs, loggingEnabled,
                                                       apiToken)>>)]

\* GET /api/v1/settings
GetSettings ==
    /\ Idle
    /\ \E readOK, userOK \in BOOLEAN :
          Apply(GetSettingsHandler(readOK, userOK), Request("settings", <<>>, {}, {}))

\* PUT /api/v1/settings carrying dns and allowed_ips, the empty string among the values
UpdateResolver ==
    /\ Idle
    /\ \E dns \in Opt(DNSValues \cup {""}), allowedIPs \in Opt(AllowedIPsValues \cup {""}) :
       \E fault \in {"none", "dns", "allowed_ips"} :
          LET body == {SettingsBody(dns, allowedIPs, {}, {})}
              o == UpdateSettingsHandler(body, fault, TRUE)
          IN  /\ settings' = o.settings
              /\ config' = o.config
              /\ calls' = o.calls
              /\ resp' = o.resp
              /\ req' = SettingsRequest(body)
    /\ UNCHANGED <<peers, nextID, nextKey, logs, nextLogID, live, saved, now, alloc, procs,
                   users, refresh_tokens, nextToken, accessSecret, rotated, limitVars,
                   mainVars, client>>

\* one peer exists; its configuration is downloaded between settings updates and
\* restarts
NextConfig ==
    \/ UpdateResolver
    \/ GetSettings
    \/ GetPeerConfig
    \/ Restart
    \/ Respond

SpecConfig == InitLog /\ [][NextConfig]_vars

---------------------------------------------------------------------------
(* Properties of the provisioning engine *)

\* the step in which the handler of an op request runs, from the state before the
\* request (unprimed) to the state in which its response is written (primed)
Handles(op) == Idle /\ req'.op = op

\* some call of one of cmds in the trace cs failed
Failed(cs, cmds) == \E i \in DOMAIN cs : cs[i].cmd \in cmds /\ ~cs[i].ok

LiveAddCmds == {"wg set peer", "wg-quick save"}
LiveRemoveCmds == {"wg set remove", "wg-quick save"}

\* the rows of a table without their update timestamps
Untimed(ps) == {[p EXCEPT !.updated_at = 0] : p \in ps}

\* C1: with requests handled one at a time, whatever tool call or storage write
\* fails, every enabled row's public key is a peer of the live interface and no
\* disabled row's public key is.
C1_EnabledIffLive ==
    \A p \in peers : p.enabled <=> p.public_key \in DOMAIN live

\* C2: a CreatePeer that answers 201 leaves the created peer's public key in the
\* live peer set; a DeletePeer that answers 200 leaves the deleted peer's public
\* key out of the live peer set and its row out of the registry.
C2_SuccessMatchesInterface ==
    [][ /\ (Handles("create") /\ resp'.status = 201) =>
            /\ Len(resp'.body) = 1
            /\ resp'.body[1].public_key \in DOMAIN live'
            /\ resp'.body[1].public_key \notin PublicKeys(peers)
            /\ resp'.body[1].assigned_ip \in live'[resp'.body[1].public_key]
        /\ (Handles("delete") /\ resp'.status = 200) =>
            /\ req'.ip \in AssignedIPs(peers)
            /\ RowByIP(peers, req'.ip).public_key \notin DOMAIN live'
            /\ req'.ip \notin AssignedIPs(peers')
            /\ RowByIP(peers, req'.ip).public_key \notin PublicKeys(peers')
      ]_vars

C2_Witness ==
    /\ req.op = "delete"
    /\ resp.status = 200
    /\ calls = <<Call("wg set remove", TRUE), Call("wg-quick save", TRUE), Call("db delete", TRUE)>>
    /\ peers # {}
    /\ \A p \in peers : p.public_key \in DOMAIN live

\* C3 as stated: when the live add of CreatePeer fails, the request answers with an
\* error and the registry is what it was before the request; a create never
\* answers success for a peer that is not live.
C3_FailedAddRestoresRegistry ==
    [][ Handles("create") =>
            /\ Failed(calls', LiveAddCmds) => (resp'.status = 500 /\ peers' = peers)
            /\ resp'.status = 201 => resp'.body[1].public_key \in DOMAIN live'
      ]_vars

\* C3 amended: when the live add of CreatePeer fails, the request answers with an
\* error; the registry is what it was before the request if the compensating delete
\* succeeded, and otherwise it is that registry plus the one row the request
\* inserted, enabled. A create never answers success for a peer that is not live.
C3_FailedAddRestoresUnlessRollbackFails ==
    [][ Handles("create") =>
            /\ Failed(calls', LiveAddCmds) =>
                  /\ resp'.status = 500
                  /\ resp'.error = "Failed to add peer to WireGuard"
                  /\ Call("db delete", TRUE) \in Range(calls') => peers' = peers
                  /\ Call("db delete", FALSE) \in Range(calls') =>
                        /\ peers \subseteq peers'
                        /\ Cardinality(peers' \ peers) = 1
                        /\ \A p \in peers' \ peers :
                              /\ p.enabled
                              /\ p.id = nextID
                              /\ p.public_key = GenerateKeyPair(nextKey).publicKey
                              /\ p.assigned_ip \notin AssignedIPs(peers)
                  /\ Call("db delete", TRUE) \in Range(calls')
                        \/ Call("db delete", FALSE) \in Range(calls')
            /\ resp'.status = 201 => resp'.body[1].public_key \in DOMAIN live'
      ]_vars

C3_Witness ==
    /\ req.op = "create"
    /\ resp.error = "Failed to add peer to WireGuard"
    /\ calls = <<Call("db insert", TRUE), Call("wg set peer", FALSE), Call("db delete", TRUE)>>
    /\ peers # {}

\* C4: in DeletePeer the registry delete is issued only after the live removal (wg
\* set ... remove, then wg-quick save) has succeeded; when the live removal fails
\* the request answers with an error and the registry is left as it was, the row
\* of the address included.
C4_RemoveBeforeDelete ==
    [][ Handles("delete") =>
            /\ \A i \in DOMAIN calls' :
                  calls'[i].cmd = "db delete" =>
                     /\ i = 3
                     /\ calls'[1] = Call("wg set remove", TRUE)
                     /\ calls'[2] = Call("wg-quick save", TRUE)
            /\ Failed(calls', LiveRemoveCmds) =>
                  /\ resp'.status = 500
                  /\ resp'.error = "Failed to remove peer from WireGuard"
                  /\ req'.ip \in AssignedIPs(peers)
                  /\ peers' = peers
                  /\ logs' = logs
      ]_vars

C4_Witness ==
    /\ req.op = "delete"
    /\ resp.error = "Failed to remove peer from WireGuard"
    /\ calls = <<Call("wg set remove", TRUE), Call("wg-quick save", FALSE)>>
    /\ req.ip \in AssignedIPs(peers)

\* C5: DeletePeer for a valid address that no row has answers 404, runs no
\* external tool, and leaves the registry, the live interface and the saved
\* configuration as they were.
C5_DeleteOfAbsentAddress ==
    [][ (Handles("delete") /\ ValidateIP(req'.ip) /\ req'.ip \notin AssignedIPs(peers)) =>
            /\ resp'.status = 404
            /\ ToolCalls(calls') = <<>>
            /\ calls' = <<>>
            /\ peers' = peers
            /\ logs' = logs
            /\ live' = live
            /\ saved' = saved
      ]_vars

C5_Witness ==
    /\ req.op = "delete"
    /\ resp.status = 404
    /\ ValidateIP(req.ip)
    /\ req.ip \notin AssignedIPs(peers)
    /\ peers # {}
    /\ DOMAIN live # {}

\* C6: when the live add or the live remove of an UpdatePeer fails, the request
\* answers with an error and the registry is left as it was, so that neither the
\* flag nor a name sent with it is written; and the UPDATE of the enabled flag is
\* issued only when no tool call of the request failed, the flag's value changing
\* only after the matching wg set and the wg-quick save have succeeded.
C6_LiveMutationBeforeFlag ==
    [][ Handles("update") =>
            /\ Failed(calls', LiveAddCmds \cup LiveRemoveCmds) =>
                  /\ resp'.status = 500
                  /\ resp'.error \in {"Failed to enable peer", "Failed to disable peer"}
                  /\ peers' = peers
            /\ \A i \in DOMAIN calls' :
                  calls'[i].cmd = "db update enabled" =>
                     \A j \in 1..(i - 1) : IsTool(calls'[j]) => calls'[j].ok
            /\ \A p \in peers, q \in peers' :
                  (p.id = q.id /\ p.enabled # q.enabled) =>
                     /\ Len(calls') >= 3
                     /\ calls'[1] = Call(IF q.enabled THEN "wg set peer" ELSE "wg set remove", TRUE)
                     /\ calls'[2] = Call("wg-quick save", TRUE)
                     /\ calls'[Len(calls')] = Call("db update enabled", TRUE)
                     /\ q.enabled <=> q.public_key \in DOMAIN live'
      ]_vars

C6_Witness ==
    /\ req.op = "update"
    /\ resp.error = "Failed to enable peer"
    /\ calls = <<Call("wg set peer", FALSE)>>
    /\ req.name # {}
    /\ \E p \in peers : p.assigned_ip = req.ip /\ ~p.enabled /\ p.name # Some(req.name)

\* C7: an UpdatePeer whose enabled value is the flag the row already has runs no
\* external tool and leaves the live peer set and the saved configuration as they
\* were; and once an UpdatePeer carrying an enabled value has answered 200, the
\* same request again, whatever fails in it, runs no external tool and leaves the
\* live peer set, the saved configuration and the rows (update timestamp aside)
\* as the first one left them.
C7_ToggleToCurrentValue ==
    [][ /\ (/\ Handles("update")
            /\ ValidateIP(req'.ip)
            /\ req'.enabled # {}
            /\ \E p \in peers : p.assigned_ip = req'.ip /\ p.enabled = Some(req'.enabled)) =>
               /\ ToolCalls(calls') = <<>>
               /\ live' = live
               /\ saved' = saved
        /\ (req.op = "update" /\ req.enabled # {} /\ resp.status = 200) =>
               \A fault \in UpdateFaults :
                  LET again == UpdatePeerHandler(req.ip,
                                   {[name |-> req.name, enabled |-> req.enabled]}, now, fault)
                  IN  /\ ToolCalls(again.calls) = <<>>
                      /\ again.live = live
                      /\ again.saved = saved
                      /\ Untimed(again.peers) = Untimed(peers)
      ]_vars

C7_Witness ==
    /\ req.op = "update"
    /\ req.enabled = {FALSE}
    /\ resp.status = 200
    /\ calls = <<Call("db update enabled", TRUE)>>
    /\ \E p \in peers : p.assigned_ip = req.ip /\ ~p.enabled /\ p.public_key \notin DOMAIN live
    /\ DOMAIN live # {}

\* C8: an UpdatePeer that carries a name and no enabled value runs no external
\* tool and leaves the live peer set, the saved configuration and every other row
\* as they were; of the addressed row nothing but the name and the update
\* timestamp changes, and the name becomes the requested one or stays.
C8_RenameFrame ==
    [][ (Handles("update") /\ req'.name # {} /\ req'.enabled = {}) =>
            /\ ToolCalls(calls') = <<>>
            /\ live' = live
            /\ saved' = saved
            /\ logs' = logs
            /\ Cardinality(peers') = Cardinality(peers)
            /\ \A p \in peers :
                  IF p.assigned_ip = req'.ip
                  THEN \E q \in peers' :
                          /\ q = [p EXCEPT !.name = q.name, !.updated_at = q.updated_at]
                          /\ q.name \in {p.name, Some(req'.name)}
                          /\ resp'.status = 200 => q.name = Some(req'.name)
                  ELSE p \in peers'
      ]_vars

C8_Witness ==
    /\ req.op = "update"
    /\ req.name # {}
    /\ req.enabled = {}
    /\ resp.status = 200
    /\ calls = <<Call("db update name", TRUE)>>
    /\ \E p, q \in peers :
          /\ p.assigned_ip = req.ip /\ p.name = Some(req.name) /\ ~p.enabled
          /\ q.assigned_ip # req.ip /\ q.name # p.name /\ q.enabled

---------------------------------------------------------------------------
(* Properties of the listing *)

\* C9: when the read of the live statistics fails, ListPeers answers 200 with one
\* entry for every row of the registry, each carrying the row's fields and
\* reported offline, with no handshake, zero transfer counters and no endpoint,
\* and the request writes no connection log.
C9_ListWithoutStats ==
    [][ (Handles("list") /\ Call("wg show dump", FALSE) \in Range(calls')) =>
            /\ resp'.status = 200
            /\ Len(resp'.body) = Cardinality(peers)
            /\ \A p \in peers :
                  \E i \in DOMAIN resp'.body :
                     /\ resp'.body[i] = PeerResponse(p)
                     /\ \A j \in DOMAIN resp'.body : resp'.body[j].id = p.id => j = i
            /\ \A i \in DOMAIN resp'.body :
                  /\ ~resp'.body[i].is_online
                  /\ resp'.body[i].latest_handshake = 0
                  /\ resp'.body[i].transfer_rx = 0
                  /\ resp'.body[i].transfer_tx = 0
                  /\ resp'.body[i].endpoint = ""
            /\ logs' = logs
            /\ nextLogID' = nextLogID
            /\ peers' = peers
      ]_vars

C9_Witness ==
    /\ req.op = "list"
    /\ calls = <<Call("wg show dump", FALSE)>>
    /\ Len(resp.body) = 2
    /\ Cardinality(peers) = 2
    /\ DOMAIN live # {}
    /\ GetSetting(settings, "logging_enabled", TRUE) = "true"

---------------------------------------------------------------------------
(* Properties of the address allocation *)

\* the assigned addresses that lie in the subnet
InSubnet(subnet, usedIPs) ==
    {ip \in usedIPs : \E h \in 0..MaxOctet : ip = HostIP(subnet, h)}

\* C10: when fewer than 253 addresses of the subnet are assigned (and the query
\* for them succeeds), GetNextAvailableIP returns without error the subnet's
\* address whose host is the lowest of 2..254 that is not assigned: the host is
\* never 0, 1 or 255, the address is no assigned one, and every lower host from 2
\* on is assigned.
C10_LowestFreeHost ==
    (alloc.result # <<>>
        /\ Cardinality(InSubnet(alloc.subnet, alloc.used)) < 253) =>
       /\ alloc.result.err = ""
       /\ Len(alloc.result.ip) = 4
       /\ \A i \in 1..3 : alloc.result.ip[i] = alloc.subnet.addr[i]
       /\ alloc.result.ip[4] \in 2..254
       /\ alloc.result.ip[4] \notin {0, 1, 255}
       /\ alloc.result.ip \notin alloc.used
       /\ \A h \in 2..(alloc.result.ip[4] - 1) :
             <<alloc.subnet.addr[1], alloc.subnet.addr[2], alloc.subnet.addr[3], h>>
                \in alloc.used

C10_Witness ==
    /\ alloc.result # <<>>
    /\ alloc.result.err = ""
    /\ alloc.result.ip[4] = 3
    /\ Cardinality(InSubnet(alloc.subnet, alloc.used)) = 251
    /\ Cardinality(alloc.used) > Cardinality(InSubnet(alloc.subnet, alloc.used))

---------------------------------------------------------------------------
(* Properties of the provisioning engine on a nearly full subnet *)

\* the hosts of 2..254 whose address no row of ps has
FreeHosts(ps) ==
    (2..254) \ {p.assigned_ip[4] : p \in {q \in ps : SubSeq(q.assigned_ip, 1, 3) = <<10, 8, 0>>}}

\* C11: with exactly one address free a create in which nothing fails answers 201
\* and fills the subnet; with no address free a create in which nothing fails
\* answers 500 "Failed to assign IP address", and every create, whatever fails in
\* it, answers with an error, leaves the registry, the live interface and the saved
\* configuration as they were and makes no tool call and no insert; the registry
\* never holds more than 253 rows.
C11_Exhaustion ==
    [][ /\ (Idle /\ Cardinality(FreeHosts(peers)) = 1) =>
              \A name \in Names, rollbackOK \in BOOLEAN :
                 LET o == CreatePeerHandler({name}, now, "none", rollbackOK)
                 IN  /\ o.resp.status = 201
                     /\ Cardinality(o.peers) = 253
                     /\ FreeHosts(o.peers) = {}
                     /\ o.resp.body[1].assigned_ip[4] \in FreeHosts(peers)
        /\ (Idle /\ FreeHosts(peers) = {}) =>
              \A name \in Names, rollbackOK \in BOOLEAN :
                 CreatePeerHandler({name}, now, "none", rollbackOK).resp
                    = Reply(500, "Failed to assign IP address", <<>>)
        /\ (Handles("create") /\ FreeHosts(peers) = {}) =>
              /\ resp'.status \in {400, 500}
              /\ resp'.error \in {"Invalid request body", "Failed to generate key pair",
                                  "Failed to assign IP address"}
              /\ peers' = peers
              /\ nextID' = nextID
              /\ live' = live
              /\ saved' = saved
              /\ calls' = <<>>
        /\ Cardinality(peers') <= 253
      ]_vars

C11_Witness ==
    /\ req.op = "create"
    /\ resp = Reply(500, "Failed to assign IP address", <<>>)
    /\ Cardinality(peers) = 253
    /\ \E p \in peers : p.public_key = GenerateKeyPair(1).publicKey /\ p.public_key \in DOMAIN live


---------------------------------------------------------------------------
(* Concurrent creates *)

Rivals == {pq \in Procs \X Procs : pq[1] # pq[2] /\ pq[2] \in procs[pq[1]].rivals}
Succeeded(p) == procs[p].pc = "done" /\ procs[p].resp.status = 201
InsertRejected(p) ==
    procs[p].pc = "done" /\ procs[p].resp = Reply(500, "Failed to create peer", <<>>)

\* no two registry rows share an assigned address, and no address is attached to
\* two public keys of the live interface
NoDoubleAllocation ==
    /\ \A r1, r2 \in peers : r1.assigned_ip = r2.assigned_ip => r1 = r2
    /\ \A k1, k2 \in DOMAIN live : k1 # k2 => live[k1] \cap live[k2] = {}

\* C12 as stated: in every interleaving of concurrent creates no two rows share an
\* address and no address is on two live keys; of two creates that computed the
\* same free address at most one succeeds, and the one that does not succeed
\* failed at its INSERT and has run no wg or wg-quick command
C12_LoserFailsAtInsert ==
    /\ NoDoubleAllocation
    /\ \A pq \in Rivals :
          /\ ~(Succeeded(pq[1]) /\ Succeeded(pq[2]))
          /\ Succeeded(pq[1]) /\ procs[pq[2]].pc = "done"
                => InsertRejected(pq[2]) /\ ToolCalls(procs[pq[2]].calls) = <<>>

\* C12 amended: in every interleaving of concurrent creates no two rows share an
\* address and no address is on two live keys; of two creates that computed the
\* same free address at most one succeeds; a create whose INSERT is rejected has
\* run no wg or wg-quick command, and a create that has run one holds or held the
\* row of its address (the other create may be the one that inserted first and
\* then failed in its live add, after which the second INSERT is accepted)
C12_AtMostOneSucceeds ==
    /\ NoDoubleAllocation
    /\ \A pq \in Rivals : ~(Succeeded(pq[1]) /\ Succeeded(pq[2]))
    /\ \A p \in Procs :
          /\ InsertRejected(p) => ToolCalls(procs[p].calls) = <<>>
          /\ ToolCalls(procs[p].calls) # <<>> => procs[p].calls[1] = Call("db insert", TRUE)

\* two creates computed the same address, one succeeded and the other was
\* rejected at its INSERT
C12_Witness ==
    \E pq \in Rivals :
       /\ Succeeded(pq[1])
       /\ InsertRejected(pq[2])
       /\ procs[pq[1]].ip = procs[pq[2]].ip
       /\ \E r \in peers : r.assigned_ip = procs[pq[1]].ip /\ r.public_key = procs[pq[1]].keys.publicKey


---------------------------------------------------------------------------
(* Credentials *)

\* the 43-character derivation of a password, whatever secret the process runs with
Derived(password) == [typ |-> "hmac", of |-> password, len |-> 43]

\* the password that currently logs the user in
CurrentPassword(u) == CHOOSE p \in Passwords : VerifyPassword(p, u.password_hash) = ""

\* C13: in every reachable state the stored API credential of every user is the
\* derivation of the password that currently logs that user in
C13_CredentialFollowsPassword ==
    \A u \in users : u.api_token = Derived(CurrentPassword(u))


LoggedIn == req.op = "login" /\ resp.status = 200

\* C14: every successful login returns a credential of exactly 43 characters that
\* is the derivation of the presented password alone (so the same password gives
\* the same credential at every login, whatever secret the process was started
\* with), and leaves that credential stored for the user
C14_LoginReturnsDerivedCredential ==
    LoggedIn =>
        /\ resp.body[1].api_token.len = 43
        /\ resp.body[1].api_token = Derived(req.password)
        /\ \A u \in users : u.username = req.username => u.api_token = Derived(req.password)

\* a login after a restart with a new secret and a password change, which
\* overwrote the stored credential
C14_Witness ==
    /\ LoggedIn
    /\ accessSecret # 1
    /\ req.password # ConfigPassword
    /\ calls[1] = Call("db update api_token", TRUE)


\* a settings request that carried a new password has been answered with success
PasswordChanged ==
    /\ req.op = "password"
    /\ resp.status = 200
    /\ req.password \notin {{}, {""}}

\* the gate's answer to the bearer value, the credential lookup working or not
Admits(value) == AuthMiddleware(<<"Bearer", value>>, TRUE, now).resp = Admitted
Rejects(value) ==
    \A lookupOK \in BOOLEAN : AuthMiddleware(<<"Bearer", value>>, lookupOK, now).resp # Admitted

---------------------------------------------------------------------------
(* Refresh tokens *)

\* the step issues no access token and no refresh token
IssuesNothing ==
    /\ resp'.body = <<>>
    /\ nextToken' = nextToken
    /\ refresh_tokens' \subseteq refresh_tokens

\* C16: a refresh token for which one refresh request has already succeeded is
\* rejected as an invalid credential when it is presented again, and the second
\* request issues nothing
C16_RotatedTokenRejected ==
    [][Handles("refresh") /\ req'.token # {} /\ req'.token \subseteq rotated
          => resp' = Reply(401, "Invalid refresh token", <<>>) /\ IssuesNothing]_vars


\* the rows of the token a refresh request presents, and whether they have expired
Presented == GetRefreshToken(refresh_tokens, Some(req'.token))
PresentsExpired ==
    /\ Handles("refresh")
    /\ req'.token # {}
    /\ \E r \in Presented : now > r.expires_at

\* C17 as stated: a refresh presenting a stored token whose expiry has passed is
\* rejected, issues nothing and removes the token's row, so that a later
\* presentation finds no row
C17_ExpiredTokenRemoved ==
    [][PresentsExpired
          => /\ resp'.status = 401
             /\ IssuesNothing
             /\ refresh_tokens' = refresh_tokens \ Presented]_vars

\* C17 amended: a refresh presenting a stored token whose expiry has passed is
\* rejected and issues nothing; the row is removed when the delete succeeds, and
\* stays when the lookup or the delete fails; a refresh presenting a token that has
\* no row is rejected as invalid, and one presenting a row left behind is rejected
\* again
C17_ExpiredTokenRejected ==
    [][Handles("refresh") /\ req'.token # {}
          => /\ Presented = {}
                  => resp' = Reply(401, "Invalid refresh token", <<>>) /\ IssuesNothing
             /\ PresentsExpired
                  => /\ resp'.status = 401
                     /\ resp'.error \in {"Refresh token expired", "Invalid refresh token"}
                     /\ IssuesNothing
                     /\ refresh_tokens' =
                           IF Call("db delete refresh_token", TRUE) \in Range(calls')
                           THEN refresh_tokens \ Presented
                           ELSE refresh_tokens]_vars

\* an expired token has been presented, rejected as expired, and its row deleted
C17_Witness ==
    /\ req.op = "refresh"
    /\ resp = Reply(401, "Refresh token expired", <<>>)
    /\ calls = <<Call("db delete refresh_token", TRUE)>>
    /\ GetRefreshToken(refresh_tokens, Some(req.token)) = {}


\* the stored tokens other than the one the request presents
Others == {r \in refresh_tokens : r.token \notin req'.token}

\* a fault-free refresh of the row would succeed
Refreshable(r) == RefreshHandler({r.token}, "none", TRUE, now).resp.status = 200

\* C18: a login leaves every stored refresh token as it is and, when it succeeds,
\* adds exactly one; a successful refresh leaves every token other than the
\* presented one as it is, and each of those that has not expired can still be
\* refreshed afterwards
C18_OtherTokensUntouched ==
    [][/\ Handles("login")
            => /\ refresh_tokens \subseteq refresh_tokens'
               /\ resp'.status = 200
                     => Cardinality(refresh_tokens') = Cardinality(refresh_tokens) + 1
       /\ Handles("refresh") /\ resp'.status = 200
            => /\ Others \subseteq refresh_tokens'
               /\ Cardinality(refresh_tokens' \ refresh_tokens) = 1
               /\ \A r \in Others : now <= r.expires_at => Refreshable(r)']_vars

\* the token of one login has been refreshed while the token of another login of
\* the same user is stored
C18_Witness ==
    /\ req.op = "refresh"
    /\ resp.status = 200
    /\ \E r \in refresh_tokens :
          /\ r.token \notin req.token
          /\ r.token # resp.body[1].refresh_token
          /\ r.user_id = 1
          /\ Refreshable(r)


---------------------------------------------------------------------------
(* The access gate *)

ProtectedOps == {"create", "delete", "settings", "status"}

\* a request for a protected route arrives carrying a non-empty bearer value
PresentsBearer ==
    /\ Idle
    /\ req'.op \in ProtectedOps
    /\ Len(req'.header) = 2
    /\ req'.header[1] \in {"Bearer", "bearer"}
    /\ req'.header[2] # EmptyString

\* the value is an access token signed under the running secret and not expired
ValidlySigned(v) == v.typ = "jwt" /\ v.key = accessSecret /\ now < v.exp

\* the value is the non-empty API credential of a stored user
StoredCredential(v) == v.len # 0 /\ \E u \in users : u.api_token = v

\* the credential lookups among the calls of the step
Lookups == SelectSeq(calls', LAMBDA c : c.cmd = "db select api_token")

\* C19: a request carrying a non-empty bearer value is admitted exactly when the
\* value is a validly signed unexpired access token, or has 43 characters and the
\* credential lookup finds it stored; the lookup is made only after signature
\* validation has failed and only for values of 43 characters; every rejection has
\* the same response, and no handler has run
C19_GateAdmission ==
    [][PresentsBearer
          => LET v == req'.header[2] IN
             /\ req'.admitted <=> \/ ValidlySigned(v)
                                  \/ /\ v.len = 43
                                     /\ StoredCredential(v)
                                     /\ Lookups = <<Call("db select api_token", TRUE)>>
             /\ Lookups # <<>> => ~ValidlySigned(v) /\ v.len = 43 /\ Len(Lookups) = 1
             /\ ~ValidlySigned(v) /\ v.len = 43 => Lookups # <<>>
             /\ ~req'.admitted
                   => /\ resp' = Reply(401, "Invalid or expired token", <<>>)
                      /\ calls' = Lookups]_vars

\* a request has been admitted on its API credential, looked up after the value
\* failed validation as an access token
C19_Witness ==
    /\ req.op \in ProtectedOps
    /\ req.admitted
    /\ req.header[2] = Derived(ConfigPassword)
    /\ calls[1] = Call("db select api_token", TRUE)
    /\ resp.status # 401


PublicOps == {"login", "refresh", "logout", "health"}

\* the header carries a valid bearer credential
HoldsCredential(header) ==
    /\ Len(header) = 2
    /\ header[1] \in {"Bearer", "bearer"}
    /\ header[2] # EmptyString
    /\ ValidlySigned(header[2]) \/ (header[2].len = 43 /\ StoredCredential(header[2]))

\* C20: a request without a valid bearer credential for a peer, settings or
\* mesh-bridging route is answered 401 by the gate, no handler runs for it, and the
\* registry, the settings, the connection log, the live interface, its saved
\* configuration and the credential tables stay as they were; the only requests
\* answered by a handler without a valid credential are login, refresh, logout and
\* the health checks
C20_NothingRunsUnadmitted ==
    [][Idle /\ req'.op # "none" /\ ~HoldsCredential(req'.header)
          => /\ req'.op \in ProtectedOps \cup PublicOps
             /\ req'.op \in ProtectedOps
                   => /\ resp'.status = 401
                      /\ ~req'.admitted
                      /\ \A c \in Range(calls') : c.cmd = "db select api_token"
                      /\ UNCHANGED <<peers, nextID, nextKey, logs, nextLogID, settings, live,
                                     saved, users, refresh_tokens>>
             /\ resp'.status # 401 => req'.op \in PublicOps]_vars

\* a create request carrying the credential of another password has been turned
\* away while the registry holds a peer created by an admitted request
C20_Witness ==
    /\ req.op = "create"
    /\ ~req.admitted
    /\ req.header = <<"Bearer", Derived("hunter2")>>
    /\ resp = Reply(401, "Invalid or expired token", <<>>)
    /\ peers # {}

---------------------------------------------------------------------------
(* The rate limiter *)

Rejected(a) == a.status = 429 /\ ~a.next /\ a.calls = <<>>

\* C21 as stated: with the limiter configured for RateLimitRequests attempts per
\* RateLimitWindowSeconds, the attempt of one source address that follows
\* RateLimitRequests others within the window of the first of them is answered
\* TooManyRequests and does not reach the login handler.
C21_RejectedWithinWindow ==
    \A ip \in Sources :
       LET a == attempts[ip]
           last == RateLimitRequests + 1
       IN  (last \in DOMAIN a /\ a[last].at - a[1].at < RateLimitWindowSeconds)
              => Rejected(a[last])

\* C21, amended: the token bucket refills one token every RateLimitWindowSeconds /
\* RateLimitRequests seconds, so an attempt is certain to be rejected only when it
\* follows RateLimitRequests admitted attempts of the same source address by less
\* than that; a rejected attempt never reaches the login handler, and no attempt
\* is rejected while the bucket holds a token.
C21_RejectedWithinRefill ==
    \A ip \in Sources :
       LET a == attempts[ip] IN
       /\ \A i \in DOMAIN a :
             LET last == i + RateLimitRequests IN
             (/\ last \in DOMAIN a
              /\ (a[last].at - a[i].at) * RateLimitRequests < RateLimitWindowSeconds
              /\ \A k \in i..(last - 1) : a[k].next)
                => Rejected(a[last])
       /\ \A i \in DOMAIN a : a[i].status = 429 <=> ~a[i].next
       /\ \A i \in DOMAIN a : ~a[i].next => a[i].calls = <<>>
       /\ a # <<>> => a[1].next

\* a third attempt one second after the first two is rejected
C21_Witness ==
    \E ip \in Sources :
       LET a == attempts[ip] IN
       /\ Len(a) = RateLimitRequests + 1
       /\ a[Len(a)].at = a[1].at + 1
       /\ Rejected(a[Len(a)])
       /\ req.op = "login" /\ resp.status = 429

---------------------------------------------------------------------------
(* The connection log *)

\* the rows of one peer that follow each other in insertion order
Consecutive(l, m) ==
    /\ l.peer_id = m.peer_id
    /\ l.id < m.id
    /\ ~\E k \in logs : k.peer_id = l.peer_id /\ l.id < k.id /\ k.id < m.id

\* C22: for every peer, whatever ListPeers calls ran and however they interleaved,
\* the connection log in insertion order never holds two consecutive rows with the
\* same endpoint.
C22_NoRepeatedEndpoint ==
    \A l, m \in logs : Consecutive(l, m) => l.endpoint # m.endpoint

---------------------------------------------------------------------------
(* Settings updates *)

SettingKeys == {"dns", "allowed_ips", "logging_enabled"}
SetCmd(k) == Call("db set " \o k, TRUE)

\* the value UpdateSettings stores for field k of body b
Stored(b, k) ==
    IF k = "logging_enabled" THEN (IF Some(b[k]) THEN "true" ELSE "false") ELSE Some(b[k])

WroteOK(cs, k) == \E i \in DOMAIN cs : cs[i] = SetCmd(k)
WriteFailure(cs) == \E i \in DOMAIN cs : ~cs[i].ok /\ cs[i].cmd # "db delete refresh_tokens"
UpdatesSettings == Handles("settings") /\ req'.body # {}

\* the fields written before the failure are stored, the others are as they were
KeptWrites ==
    \A k \in SettingKeys :
       IF WroteOK(calls', k)
       THEN /\ Some(req'.body)[k] # {}
            /\ k \in DOMAIN settings'
            /\ settings'[k] = Stored(Some(req'.body), k)
       ELSE /\ k \in DOMAIN settings' <=> k \in DOMAIN settings
            /\ k \in DOMAIN settings => settings'[k] = settings[k]

\* C23 as stated: when the write of one field of an UpdateSettings request fails,
\* the fields already written stay written and the request is answered as a success.
C23_PartialFailureIsSuccess ==
    [][(UpdatesSettings /\ WriteFailure(calls')) => (KeptWrites /\ resp'.status = 200)]_vars

\* C23, amended: UpdateSettings writes the fields in the order dns, allowed_ips,
\* logging_enabled, admin_password and returns at the first write that fails with
\* status 500: the fields written before it stay written, the fields after it are
\* not attempted, and status 200 means every field of the request was written.
C23_FirstFailureReported ==
    [][UpdatesSettings =>
          /\ KeptWrites
          /\ WriteFailure(calls')
                => /\ resp'.status = 500
                   /\ \A i \in DOMAIN calls' : ~calls'[i].ok => i = Len(calls')
          /\ resp'.status = 200
                => /\ ~WriteFailure(calls')
                   /\ \A k \in SettingKeys : Some(req'.body)[k] # {} => WroteOK(calls', k)
                   /\ \A pw \in Some(req'.body).admin_password \ {""} :
                         \E u \in users' : /\ u.username = AdminUsername
                                           /\ VerifyPassword(pw, u.password_hash) = ""
      ]_vars

\* the DNS was written, the write of AllowedIPs failed, the answer is an error
C23_Witness ==
    /\ req.op = "settings"
    /\ calls = <<SetCmd("dns"), Call("db set allowed_ips", FALSE)>>
    /\ resp.status = 500
    /\ "dns" \in DOMAIN settings /\ settings["dns"] = "9.9.9.9"
    /\ "allowed_ips" \notin DOMAIN settings

---------------------------------------------------------------------------
(* Access tokens *)

\* the access tokens the service can have issued so far: signed for a user at a
\* time since it first started, under a secret it has run with
IssuedTokens ==
    {GenerateAccessToken(u.id, u.username, k, t) :
        u \in users, k \in 1..accessSecret, t \in Epoch..now}

GateAnswers(v) == {AuthMiddleware(<<"Bearer", v>>, lookupOK, now) : lookupOK \in BOOLEAN}

\* C24 as stated: an access token is accepted by the gate at every time before its
\* expiry and at no time after it, whatever the service has done in between.
C24_AcceptedUntilExpiry ==
    \A v \in IssuedTokens :
       \A g \in GateAnswers(v) : g.resp = Admitted <=> now < v.exp

\* C24, amended: an access token is accepted by the gate exactly while the clock is
\* before its expiry and the running process signs with the secret the token was
\* signed with; the tables are not consulted, so logout, refresh-token rotation or
\* deletion and a password change do not reject it, while a restart with a new
\* secret does.
C24_AcceptedUntilExpiryOrRestart ==
    \A v \in IssuedTokens :
       \A g \in GateAnswers(v) :
          /\ g.resp = Admitted <=> (now < v.exp /\ v.key = accessSecret)
          /\ g.calls = <<>>

\* the password has just been changed, after a refresh token was rotated and the
\* clock moved: the access token of the earlier login is still admitted
C24_Witness ==
    /\ req.op = "password" /\ resp.status = 200
    /\ rotated # {}
    /\ refresh_tokens = {}
    /\ now > Epoch
    /\ Admits(GenerateAccessToken(1, AdminUsername, accessSecret, now - 1))

---------------------------------------------------------------------------
(* The lifecycle of a peer under concurrent requests *)

Answered(p, op, status) ==
    procs[p].pc = "done" /\ Op(p) = op /\ procs[p].resp.status = status

\* C25: every created peer is stored and reported enabled, and once a DeletePeer
\* has answered success the public key of the peer it deleted is neither in the
\* registry nor in the live interface, whatever other requests run beside it.
C25_Lifecycle ==
    \A p \in Procs :
       /\ Answered(p, "create", 201)
             => /\ procs[p].resp.body[1].enabled
                /\ procs[p].peer.enabled
       /\ Answered(p, "delete", 200)
             => /\ procs[p].peer.public_key \notin PublicKeys(peers)
                /\ procs[p].peer.public_key \notin DOMAIN live

\* C29: the compensating delete of a failed CreatePeer never removes the registry
\* row of another peer whose create went through (its key is live and saved).
C29_RollbackDeletesOwnRow ==
    [][\A p \in Procs :
          (Creating(p) /\ procs[p].pc = "rollback" /\ procs'[p].pc = "done")
             => \A row \in peers \ peers' :
                   \/ row.public_key = procs[p].keys.publicKey
                   \/ ~(row.public_key \in DOMAIN live /\ row.public_key \in DOMAIN saved)]_vars

Quiescent == \A p \in Procs : procs[p].pc = "idle"

\* C30: once two concurrent UpdatePeer requests on one peer have completed, every
\* call having succeeded, the enabled flag of the row agrees with the presence of
\* its key in the live interface.
C30_ToggleAgreement ==
    Quiescent => \A row \in peers : row.enabled <=> row.public_key \in DOMAIN live

---------------------------------------------------------------------------
(* The live interface against the registry, requests handled one at a time *)

\* C26: after every request, every public key in the live interface's peer set is
\* the key of a registry row.
C26_LivePeerHasRow ==
    \A k \in DOMAIN live : k \in PublicKeys(peers)

LiveCmds == LiveAddCmds \cup LiveRemoveCmds
MutatesLive == Handles("create") \/ Handles("update") \/ Handles("delete")

\* C27: when AddPeer or RemovePeer returns an error the live peer set is as it was
\* before the call, and when it returns nil the saved configuration is the live one.
C27_ErrorLeavesLiveUnchanged ==
    [][MutatesLive =>
          /\ Failed(calls', LiveCmds) => live' = live
          /\ (ToolCalls(calls') # <<>> /\ ~Failed(calls', LiveCmds)) => saved' = live']_vars

\* C28: when CreatePeer's live add fails and the compensating delete fails too, the
\* request returns an error and the row it leaves behind has enabled = false.
C28_OrphanLooksDisabled ==
    [][(Handles("create") /\ Failed(calls', LiveAddCmds) /\ Failed(calls', {"db delete"}))
          => /\ resp'.status >= 400
             /\ \A row \in peers' \ peers : ~row.enabled]_vars

---------------------------------------------------------------------------
(* Refresh rotation under concurrent requests *)

Refreshed(p) == Answered(p, "refresh", 200)

\* C31: of the concurrent refresh requests that present one refresh token at most
\* one is answered with success, so a token never has two successors.
C31_OneSuccessor ==
    \A p, q \in Procs :
       (p # q /\ Refreshed(p) /\ Refreshed(q)) => procs[p].token # procs[q].token

InStorage(token) == GetRefreshToken(refresh_tokens, token) # {}

\* C32: the old row is deleted before the new one is inserted: a refresh token and
\* the successor a refresh issued for it are never both stored; between the two
\* statements the presented token is not stored, and a refresh that fails there
\* answers without a new token.
C32_OldDeletedBeforeNewInserted ==
    \A p \in Procs :
       /\ Refreshed(p) => ~(InStorage(Some(procs[p].token)) /\ InStorage(procs[p].new))
       /\ (Op(p) = "refresh" /\ procs[p].pc = "insert") => ~InStorage(Some(procs[p].token))
       /\ (Op(p) = "refresh" /\ procs[p].pc = "done" /\ procs[p].resp.status # 200)
             => procs[p].resp.body = <<>>

---------------------------------------------------------------------------
(* Refresh tokens across password change, logout and the purge *)

\* the answers Refresh can give a cookie in this state, over every outcome of its calls
RefreshAnswers(token) ==
    {RefreshHandler({token}, fault, deleteOK, now).resp.status :
        fault \in RefreshFaults, deleteOK \in BOOLEAN}

\* C33: once a password change has answered success, Refresh rejects every refresh
\* token issued to the admin user before the change.
C33_PasswordChangeRevokesTokens ==
    PasswordChanged =>
        \A n \in 1..(nextToken - 1) : 200 \notin RefreshAnswers(GenerateRefreshToken(n))

\* C34: a logout answers success whatever cookie it carries; the token of the
\* cookie is not stored afterwards, so Refresh rejects it, and every other row of
\* refresh_tokens stays.
C34_LogoutRevokesItsToken ==
    [][Handles("logout") =>
          /\ resp'.status = 200
          /\ \A token \in req'.token :
                /\ GetRefreshToken(refresh_tokens', token) = {}
                /\ DeleteRefreshToken(refresh_tokens, token) \subseteq refresh_tokens'
          /\ req'.token = {} => refresh_tokens' = refresh_tokens]_vars

\* the step is a run of the purge: rows go although no handler ran a statement
PurgeRuns == procs' = procs /\ refresh_tokens' # refresh_tokens

\* Refresh's own test of a row (part_008:131)
Expired(r) == now > r.expires_at

\* C35: a run of the hourly purge removes the refresh tokens whose expiry is in the
\* past and no others, whatever requests are in flight around it: every row Refresh
\* takes as unexpired stays as it is, so the answers Refresh gives such a token are
\* the same after the run as before it, and a refresh that is in flight still
\* completes as it would have.
C35_PurgeRemovesExpiredOnly ==
    [][PurgeRuns =>
          /\ refresh_tokens' \subseteq refresh_tokens
          /\ \A r \in refresh_tokens : r \in refresh_tokens' <=> ~(r.expires_at < now)
          /\ \A r \in refresh_tokens :
                ~Expired(r) => /\ r \in refresh_tokens'
                               /\ RefreshAnswers(r.token)' = RefreshAnswers(r.token)
          /\ users' = users /\ nextToken' = nextToken]_vars

\* a purge has run while a refresh was between its statements, it removed some row
\* and left an unexpired one
C35_Witness ==
    /\ calls = <<Call("db clean expired_tokens", TRUE)>>
    /\ \E p \in Procs : Rotating(p)
    /\ \E r \in refresh_tokens : ~Expired(r)
    /\ Cardinality(refresh_tokens) < nextToken - 1

---------------------------------------------------------------------------
(* Shutdown *)

\* C36: after the shutdown signal has cancelled the maintenance context no
\* maintenance run starts, and main neither closes the database nor ends the
\* process while a run is in progress.
C36_CooperativeShutdown ==
    [][/\ (maintPC = "select" /\ maintPC' = "purge") => ~ctxDone
       /\ (dbOpen /\ ~dbOpen') => ~InRun
       /\ (mainPC # "exited" /\ mainPC' = "exited") => ~InRun]_vars

---------------------------------------------------------------------------
(* Validation before any external call *)

\* 32 bytes after decoding; four parts, each an octet
KeyOf32Bytes(key) == key.len = 32
FourOctets(ip) == Len(ip) = 4 /\ \A i \in 1..4 : ip[i] \in 0..255

\* the step changed nothing of the registry, the interface or its saved
\* configuration and ran no tool
NothingTouched ==
    /\ calls' = <<>>
    /\ UNCHANGED <<peers, logs, live, saved, nextID, nextKey>>

\* C37: AddPeer with a key that is not 32 bytes or an address that is not four
\* octets, and RemovePeer with such a key, return a validation error, run no tool
\* and change nothing; update, delete and config requests whose address is
\* malformed are answered 400 whether or not the registry can be read.
C37_ValidationFirst ==
    [][/\ (Handles("AddPeer") /\ ~(KeyOf32Bytes(req'.key) /\ FourOctets(req'.ip)))
             => /\ resp'.error \in {"invalid public key format", "invalid IP address format"}
                /\ NothingTouched
       /\ (Handles("RemovePeer") /\ ~KeyOf32Bytes(req'.key))
             => resp'.error = "invalid public key format" /\ NothingTouched
       /\ ((Handles("update") \/ Handles("delete") \/ Handles("config"))
              /\ ~FourOctets(req'.ip))
             => resp' = Reply(400, "Invalid IP address format", <<>>) /\ NothingTouched]_vars

\* AddPeer has refused an octet above 255 for a key that is already live
C37_Witness ==
    /\ req.op = "AddPeer"
    /\ KeyOf32Bytes(req.key) /\ req.key \in DOMAIN live
    /\ req.ip = <<10, 8, 0, 256>>
    /\ resp.error = "invalid IP address format"

---------------------------------------------------------------------------
(* Referential integrity of the tables *)

\* PeerHandler.GetPeerLogs for the peer at ip: the rows it returns
PeerLogs(ip) == {l \in logs : \E p \in peers : p.assigned_ip = ip /\ l.peer_id = p.id}

\* C38: every connection_logs row names a peer that exists and every refresh_tokens
\* row a user that exists; the rows of a deleted peer go with it, so the log of a
\* peer holds only entries written since that peer was created, whoever held its
\* address before.
C38_RowsHaveOwners ==
    /\ \A l \in logs : \E p \in peers : p.id = l.peer_id
    /\ \A r \in refresh_tokens : \E u \in users : u.id = r.user_id
    /\ \A p \in peers : p.id < nextID
    /\ \A p \in peers : \A l \in PeerLogs(p.assigned_ip) :
          l.peer_id = p.id /\ l.id < nextLogID /\ l.connected_at >= p.created_at

\* a peer with log entries was deleted and a later peer has its address and an
\* empty log, while a refresh token is stored
C38_Witness ==
    /\ nextLogID > 1
    /\ logs = {}
    /\ \E p \in peers : p.id > 1 /\ p.assigned_ip = HostIP(WGSubnet, FirstHost)
    /\ refresh_tokens # {}

---------------------------------------------------------------------------
(* Settings as reported and as used *)

\* what GetSettings reports when its reads work, and what a client configuration
\* generated now carries
Reported == GetSettingsHandler(TRUE, TRUE).resp.body[1]
Generated == GenerateClientConfig(config, FirstRow)

\* C39: the DNS and AllowedIPs values GetSettings reports are the values a client
\* configuration is generated with, after any settings updates and restarts.
C39_ReportedIsUsed ==
    /\ Reported.dns = Generated.DNS
    /\ Reported.allowed_ips = Generated.AllowedIPs

---------------------------------------------------------------------------
(* The web client under two simultaneous 401 answers *)

\* C40: a browser client holding a valid refresh cookie is not logged out (its
\* access token cleared, the browser sent to /login) because two of its requests
\* were answered 401 at about the same time and each attempted a refresh: under
\* every interleaving of the two refreshes no request ends as "Session expired".
C40_NoSpuriousLogout ==
    /\ client.page = "app"
    /\ \A i \in DOMAIN client.task : client.task[i] # "expired"

====
